---- MODULE Spec2Model ----
(***************************************************************************)
(* The resilient remote-call layer of anki-mcp-server: AnkiClient's       *)
(* executeWithRetry / executeWithCache over the process-wide CacheManager  *)
(* and PerformanceMonitor, and the public client methods that route        *)
(* through them.  The transport (yanki-connect / AnkiConnect) is a black   *)
(* box: each invocation of an operation either resolves to some value or   *)
(* rejects with some thrown value.  Times are milliseconds.                *)
(***************************************************************************)
EXTENDS Integers, Sequences, FiniteSets, TLC

VARIABLES
    config,      \* the AnkiConfig the client was built from
    now,         \* Date.now()
    ticks,       \* how often the clock was advanced by Tick
    cache,       \* CacheManager.cache: a Map from key to CacheEntry
    operations,  \* PerformanceMonitor.operations: a Map from name to aggregate
    pc,          \* per call chain: where the async method is suspended
    call,        \* per call chain: the public method invoked and its argument
    attempt,     \* executeWithRetry's loop variable
    lastError,   \* executeWithRetry's lastError (<<>> is null)
    startTime,   \* the startTime closed over by the stop closure (<<>>: no timer)
    invocations, \* how often this call has invoked its operation
    sleeps,      \* the backoff delays this call has slept, in order
    wakeAt,      \* when the pending setTimeout is due
    outcome,     \* what the call returned or threw
    calls,       \* number of public calls started
    cleanups,    \* how often the constructor's setInterval callback has run
    raised,      \* history: what each failed invocation of this call threw
    refetch,     \* history: <<key, cause>>: a mutation of kind cause has returned
                 \* successfully and no call for key has been made since
    ret,         \* the last direct call on a component and what it returned
    env,         \* process.env: the ANKI_* variables
    loader,      \* ConfigLoader: the static instance and its config field
    built,       \* history: how many ApplicationConfig objects were built
    batch,       \* the BatchOptimizer call in progress: its locals
    ankiConnect  \* Anki behind the transport: its decks, the responses sent

vars == << config, now, ticks, cache, operations, pc, call, attempt, lastError,
           startTime, invocations, sleeps, wakeAt, outcome, calls, cleanups,
           raised, refetch, ret, env, loader, built, batch, ankiConnect >>

\* the process around the client: environment, configuration loader and
\* batch optimizer, and the Anki it talks to
hostVars == << env, loader, built, batch, ankiConnect >>

-----------------------------------------------------------------------------
(* Bounds of the model *)

MaxRetryAttempts == 2
MaxCalls == 3
MaxTicks == 1

Procs == {"p1", "p2"}
DeckArgs == {"A", "B"}
StatsDecks == {"A"}

Min(a, b) == IF a <= b THEN a ELSE b
Max(a, b) == IF a >= b THEN a ELSE b

RECURSIVE Pow2(_)
Pow2(n) == IF n = 0 THEN 1 ELSE 2 * Pow2(n - 1)

Last(seq) == seq[Len(seq)]

RECURSIVE SumSeq(_)
SumSeq(s) == IF s = <<>> THEN 0 ELSE Head(s) + SumSeq(Tail(s))

-----------------------------------------------------------------------------
(* JavaScript values crossing the transport: a type tag and a payload *)

JSNull == [t |-> "null", v |-> <<>>]
JSUndefined == [t |-> "undefined", v |-> <<>>]
JSArray(items) == [t |-> "array", v |-> items]
JSObject(keys) == [t |-> "object", v |-> keys]
JSNumber(digits) == [t |-> "number", v |-> <<digits>>]
JSTrue == [t |-> "boolean", v |-> <<"true">>]
JSFalse == [t |-> "boolean", v |-> <<"false">>]
JSBool(b) == IF b THEN JSTrue ELSE JSFalse

\* what a read operation can resolve to
ReadValues ==
    { JSArray(<<>>), JSArray(<<"Default", "Spanish">>), JSNull, JSUndefined }

\* what a mutating operation can resolve to
WriteValues == { JSNumber("1"), JSNull }

\* the deck lists deckNames answers with while decks are created
DeckLists ==
    { JSArray(<< >>) }
        \cup { JSArray(<< a >>) : a \in DeckArgs }
        \cup { JSArray(<< ab[1], ab[2] >>) :
                   ab \in { x \in DeckArgs \X DeckArgs : x[1] # x[2] } }

-----------------------------------------------------------------------------
(* AnkiConfig *)

(* A number is an integer or NaN; a string is a sequence of characters or *)
(* of longer fragments; an optional value is <<>> (undefined) or <<v>>.    *)

\* NaN: a value no argument and no parsed digit string of the model equals
NaN == -1

\* the JavaScript comparisons a < b and a > b
Less(a, b) == a # NaN /\ b # NaN /\ a < b
Greater(a, b) == a # NaN /\ b # NaN /\ a > b

Digits == { "0", "1", "2", "3", "4", "5", "6", "7", "8", "9" }

DigitValue(ch) ==
    CASE ch = "0" -> 0 [] ch = "1" -> 1 [] ch = "2" -> 2 [] ch = "3" -> 3
      [] ch = "4" -> 4 [] ch = "5" -> 5 [] ch = "6" -> 6 [] ch = "7" -> 7
      [] ch = "8" -> 8 [] ch = "9" -> 9

\* the value of the longest prefix of digits of s, after the digits read so
\* far gave acc; <<>> when no digit has been read
RECURSIVE parseDigits(_, _)
parseDigits(s, acc) ==
    IF s = << >> \/ Head(s) \notin Digits THEN acc
    ELSE parseDigits(Tail(s),
            << 10 * (IF acc = << >> THEN 0 ELSE acc[1]) + DigitValue(Head(s)) >>)

\* parseInt(s) for a string s of digits and letters
parseInt(s) ==
    IF parseDigits(s, << >>) = << >> THEN NaN ELSE parseDigits(s, << >>)[1]

DefaultUrl == << "http:", "//localhost:8765" >>
DefaultApiVersion == 6
DefaultTimeout == 5000
DefaultRetryAttempts == 3
DefaultRetryDelay == 1000
DefaultDeck == << "Default" >>

ApiVersionMin == 1
ApiVersionMax == 10
TimeoutMin == 1000
TimeoutMax == 60000
RetryAttemptsMin == 0
RetryAttemptsMax == 10
RetryDelayMin == 100
RetryDelayMax == 10000

\* new URL(u) does not throw: u starts with a scheme
Schemes == { "http:", "https:" }
parseable(u) == u # << >> /\ Head(u) \in Schemes

\* s.trim().length === 0
blank(s) == \A i \in 1 .. Len(s) : s[i] = " "

\* AnkiConfig.validate: the errors it collects
validationErrors(c) ==
    (IF parseable(c.url) THEN << >> ELSE << "Invalid Anki URL" >>)
    \o (IF Less(c.apiVersion, ApiVersionMin)
           \/ Greater(c.apiVersion, ApiVersionMax)
        THEN << "Invalid API version" >> ELSE << >>)
    \o (IF Less(c.timeout, TimeoutMin) \/ Greater(c.timeout, TimeoutMax)
        THEN << "Invalid timeout" >> ELSE << >>)
    \o (IF Less(c.retryAttempts, RetryAttemptsMin)
           \/ Greater(c.retryAttempts, RetryAttemptsMax)
        THEN << "Invalid retry attempts" >> ELSE << >>)
    \o (IF Less(c.retryDelay, RetryDelayMin)
           \/ Greater(c.retryDelay, RetryDelayMax)
        THEN << "Invalid retry delay" >> ELSE << >>)
    \o (IF c.defaultDeck = << >> \/ blank(c.defaultDeck)
        THEN << "Default deck name cannot be empty" >> ELSE << >>)

\* AnkiConfig.validate does not throw
validate(c) == validationErrors(c) = << >>

\* the configurations the model builds clients from: the least and the
\* greatest accepted delay, the default, and one just outside each end
CandidateConfigs ==
    [ url : {DefaultUrl},
      apiVersion : {DefaultApiVersion},
      timeout : {DefaultTimeout},
      retryAttempts : (0 .. MaxRetryAttempts) \cup {RetryAttemptsMax + 1},
      retryDelay : { RetryDelayMin - 1, RetryDelayMin, DefaultRetryDelay,
                     RetryDelayMax, RetryDelayMax + 1 },
      defaultDeck : {DefaultDeck} ]

AcceptedConfigs == { c \in CandidateConfigs : validate(c) }

\* process.env with no ANKI_* variable set
NoEnv ==
    [ ANKI_CONNECT_URL |-> << >>, ANKI_API_VERSION |-> << >>,
      ANKI_TIMEOUT |-> << >>, ANKI_RETRY_ATTEMPTS |-> << >>,
      ANKI_RETRY_DELAY |-> << >>, ANKI_DEFAULT_DECK |-> << >> ]

\* ConfigLoader before getInstance() was ever called
NoLoader == [ instance |-> << >>, config |-> << >> ]

\* no BatchOptimizer call has been made
NoBatch == [ phase |-> "idle" ]

\* Anki holds no deck of the model and has answered no call chain
NoAnki == [ decks |-> << >>, response |-> [ p \in Procs |-> << >> ] ]

-----------------------------------------------------------------------------
(* Errors.  A message is a sequence of fragments; includes() is fragment   *)
(* membership.  cause is <<>> or a one-element sequence.                   *)

includes(msg, fragment) == \E i \in 1 .. Len(msg) : msg[i] = fragment

PlainError(msg) ==
    [ cls |-> "Error", message |-> msg, code |-> "", category |-> "",
      severity |-> "", domain |-> FALSE, isError |-> TRUE, cause |-> <<>> ]

\* a thrown value that is not an Error instance (a string)
ThrownString(msg) ==
    [ cls |-> "string", message |-> msg, code |-> "", category |-> "",
      severity |-> "", domain |-> FALSE, isError |-> FALSE, cause |-> <<>> ]

DomainError(cls, msg, code, category, severity, cause) ==
    [ cls |-> cls, message |-> msg, code |-> code, category |-> category,
      severity |-> severity, domain |-> TRUE, isError |-> TRUE, cause |-> cause ]

AnkiConnectionError(msg, cause) ==
    DomainError("AnkiConnectionError", msg, "ANKI_CONNECTION_ERROR",
                "connection", "high", cause)

AnkiTimeoutError(msg, cause) ==
    DomainError("AnkiTimeoutError", msg, "ANKI_TIMEOUT_ERROR",
                "connection", "medium", cause)

AnkiApiError(msg, cause) ==
    DomainError("AnkiApiError", msg, "ANKI_API_ERROR",
                "infrastructure", "medium", cause)

InvalidNoteError(msg, cause) ==
    DomainError("InvalidNoteError", msg, "INVALID_NOTE_ERROR",
                "validation", "low", cause)

ConfigurationError(msg, cause) ==
    DomainError("ConfigurationError", msg, "CONFIGURATION_ERROR",
                "infrastructure", "critical", cause)

InvalidDeckError(msg, cause) ==
    DomainError("InvalidDeckError", msg, "INVALID_DECK_ERROR",
                "validation", "low", cause)

McpProtocolError(msg, cause) ==
    DomainError("McpProtocolError", msg, "MCP_PROTOCOL_ERROR",
                "infrastructure", "high", cause)

BusinessLogicError(msg, cause) ==
    DomainError("BusinessLogicError", msg, "BUSINESS_LOGIC_ERROR",
                "business_logic", "medium", cause)

\* the values of the enums ErrorSeverity and ErrorCategory
ErrorSeverity == {"low", "medium", "high", "critical"}
ErrorCategory ==
    { "connection", "validation", "authorization", "business_logic",
      "infrastructure", "unknown" }

\* a cause is kept by its class and message
CauseOf(e) == << [cls |-> e.cls, message |-> e.message] >>

NotRunningMsg == <<"Anki is not running">>
TimedOutMsg == <<"Connection to Anki timed out">>
UnavailableMsg == <<"Anki collection is unavailable">>

\* mutant: the timeout patterns are tested before ECONNREFUSED
normalizeErrorTimeoutFirst(error) ==
    IF error.isError
    THEN IF includes(error.message, "timeout")
            \/ includes(error.message, "ETIMEDOUT")
         THEN AnkiTimeoutError(TimedOutMsg, CauseOf(error))
         ELSE IF includes(error.message, "ECONNREFUSED")
         THEN AnkiConnectionError(NotRunningMsg, CauseOf(error))
         ELSE IF includes(error.message, "collection unavailable")
         THEN AnkiApiError(UnavailableMsg, CauseOf(error))
         ELSE error
    ELSE PlainError(error.message)

\* AnkiClient.normalizeError
normalizeError(error) ==
    IF error.isError
    THEN IF includes(error.message, "ECONNREFUSED")
         THEN AnkiConnectionError(NotRunningMsg, CauseOf(error))
         ELSE IF includes(error.message, "timeout")
                 \/ includes(error.message, "ETIMEDOUT")
         THEN AnkiTimeoutError(TimedOutMsg, CauseOf(error))
         ELSE IF includes(error.message, "collection unavailable")
         THEN AnkiApiError(UnavailableMsg, CauseOf(error))
         ELSE error
    ELSE PlainError(error.message)

-----------------------------------------------------------------------------
(* ErrorHandler.  An McpError is kept by the arguments its constructor is  *)
(* given: the ErrorCode, the message and the optional data (<<>>: none).   *)

McpError(code, msg, data) ==
    [cls |-> "McpError", code |-> code, message |-> msg, data |-> data]

\* mutant: critical infrastructure errors get a code of their own
getMcpErrorCodeBySeverity(category, severity) ==
    CASE category = "validation" -> "InvalidParams"
      [] category = "authorization" -> "InvalidParams"
      [] category = "business_logic" -> "InvalidRequest"
      [] category = "infrastructure" /\ severity = "critical" -> "InvalidRequest"
      [] OTHER -> "InternalError"

\* ErrorHandler.getMcpErrorCode
getMcpErrorCode(category, severity) ==
    CASE category = "connection" -> "InternalError"
      [] category = "validation" -> "InvalidParams"
      [] category = "authorization" -> "InvalidParams"
      [] category = "business_logic" -> "InvalidRequest"
      [] category = "infrastructure" ->
            IF severity = "critical" THEN "InternalError" ELSE "InternalError"
      [] OTHER -> "InternalError"

\* ErrorHandler.toMcpError
toMcpError(error) ==
    IF error.domain
    THEN McpError(getMcpErrorCode(error.category, error.severity),
                  error.message, <<>>)
    ELSE McpError("InternalError", error.message, <<>>)

\* mutant: the category is tested before the severity
isRecoverableCategoryFirst(error) ==
    IF error.domain
    THEN error.category \in {"connection", "validation"}
    ELSE FALSE

\* ErrorHandler.isRecoverable
isRecoverable(error) ==
    IF error.domain
    THEN IF error.severity = "critical" THEN FALSE
         ELSE IF error.category = "connection" THEN TRUE
         ELSE IF error.category = "validation" THEN TRUE
         ELSE FALSE
    ELSE FALSE

\* mutant: a public method rethrows what it caught
publicThrowCaught(error) == error

\* the catch block of every public method of AnkiClient
publicThrow(error) == toMcpError(normalizeError(error))

-----------------------------------------------------------------------------
(* The AnkiClient of utils.ts: its error classes extend Error directly,    *)
(* and its public methods convert what they catch with wrapError.          *)

UtilsError(cls, msg) ==
    [ cls |-> cls, message |-> msg, code |-> "", category |-> "",
      severity |-> "", domain |-> FALSE, isError |-> TRUE, cause |-> <<>> ]

UtilsErrorClasses ==
    {"AnkiConnectionError", "AnkiTimeoutError", "AnkiApiError"}

\* AnkiClient.normalizeError of utils.ts
utilsNormalizeError(error) ==
    IF error.isError
    THEN IF includes(error.message, "ECONNREFUSED")
         THEN UtilsError("AnkiConnectionError", NotRunningMsg)
         ELSE IF includes(error.message, "timeout")
                 \/ includes(error.message, "ETIMEDOUT")
         THEN UtilsError("AnkiTimeoutError", TimedOutMsg)
         ELSE IF includes(error.message, "collection unavailable")
         THEN UtilsError("AnkiApiError", UnavailableMsg)
         ELSE error
    ELSE PlainError(error.message)

\* AnkiClient.wrapError of utils.ts
wrapError(error) ==
    IF error.cls \in UtilsErrorClasses /\ ~error.domain
    THEN McpError("InternalError", error.message, <<>>)
    ELSE McpError("InternalError", <<"Anki error: ">> \o error.message, <<>>)

\* what a public method of the utils.ts client throws when its
\* executeWithRetry, the same loop, gives up after the failures in raisedSeq
utilsPublicThrow(raisedSeq) ==
    IF raisedSeq = <<>>
    THEN wrapError(UtilsError("AnkiConnectionError", <<"Unknown error occurred">>))
    ELSE wrapError(utilsNormalizeError(Last(raisedSeq)))

\* what an invocation of an operation can reject with
ThrownValues ==
    { PlainError(<<"connect", "ECONNREFUSED">>),
      PlainError(<<"connection", "timeout">>),
      PlainError(<<"collection unavailable">>),
      PlainError(<<"boom">>),
      ThrownString(<<"boom">>),
      InvalidNoteError(<<"empty field">>, <<>>),
      ConfigurationError(<<"bad url">>, <<>>) }

-----------------------------------------------------------------------------
(* AnkiConfig: the ways of building one.  A call returns the instance or   *)
(* throws; an argument or an override is optional.                         *)

Built(c) == [t |-> "AnkiConfig", v |-> c]
Throw(e) == [t |-> "throw", v |-> e]

ConfigFields ==
    { "url", "apiVersion", "timeout", "retryAttempts", "retryDelay",
      "defaultDeck" }

ConfigDefaults ==
    [ url |-> DefaultUrl, apiVersion |-> DefaultApiVersion,
      timeout |-> DefaultTimeout, retryAttempts |-> DefaultRetryAttempts,
      retryDelay |-> DefaultRetryDelay, defaultDeck |-> DefaultDeck ]

\* new AnkiConfig(...): default parameters, assignments, validate()
AnkiConfig(args) ==
    LET this == [f \in ConfigFields |->
                    IF args[f] = << >> THEN ConfigDefaults[f] ELSE args[f][1]]
    IN  IF validate(this) THEN Built(this)
        ELSE Throw(ConfigurationError(
                 << "Anki configuration validation failed: " >>
                     \o validationErrors(this), << >>))

\* x || d for an optional string x
orElse(x, d) == IF x = << >> \/ x[1] = << >> THEN d ELSE x[1]

\* AnkiConfig.fromEnvironment
fromEnvironment(e) ==
    AnkiConfig(
      [ url |-> << orElse(e.ANKI_CONNECT_URL, DefaultUrl) >>,
        apiVersion |-> << parseInt(orElse(e.ANKI_API_VERSION, << "6" >>)) >>,
        timeout |->
            << parseInt(orElse(e.ANKI_TIMEOUT, << "5", "0", "0", "0" >>)) >>,
        retryAttempts |->
            << parseInt(orElse(e.ANKI_RETRY_ATTEMPTS, << "3" >>)) >>,
        retryDelay |->
            << parseInt(orElse(e.ANKI_RETRY_DELAY, << "1", "0", "0", "0" >>)) >>,
        defaultDeck |-> << orElse(e.ANKI_DEFAULT_DECK, DefaultDeck) >> ])

\* AnkiConfig.fromObject
fromObject(o) == AnkiConfig(o)

\* mutant: an override is taken only when it is truthy
withOverridesTruthy(this, overrides) ==
    AnkiConfig([f \in ConfigFields |->
                   IF \/ overrides[f] = << >>
                      \/ f \in {"url", "defaultDeck"} /\ overrides[f][1] = << >>
                      \/ f \notin {"url", "defaultDeck"} /\ overrides[f][1] = 0
                   THEN << this[f] >> ELSE overrides[f]])

\* AnkiConfig.withOverrides
withOverrides(this, overrides) ==
    AnkiConfig([f \in ConfigFields |->
                   IF overrides[f] = << >> THEN << this[f] >>
                   ELSE overrides[f]])

-----------------------------------------------------------------------------
(* ConfigLoader.  An ApplicationConfig object is known by the order in     *)
(* which it was built (id) and holds its anki section; ServerConfig and    *)
(* CacheConfig are built by code outside this model, and `others` says     *)
(* whether building them returns ("ok") or throws ("throw").  The sections *)
(* of a built object are objects, so validateConfiguration never throws.   *)

ApplicationConfig(id, anki) == [id |-> id, anki |-> anki]

Loaded(obj) == [t |-> "ApplicationConfig", v |-> obj]

FailedToLoad(msg) ==
    ConfigurationError(<< "Failed to load configuration: " >> \o msg, << >>)

\* ConfigLoader.getInstance: the loader class after the call
getInstance(l) ==
    IF l.instance = << >> THEN [l EXCEPT !.instance = << 1 >>] ELSE l

\* mutant: the configuration is built on every call
loadRebuilding(l, e, n, others) ==
    IF fromEnvironment(e).t = "throw"
    THEN [ loader |-> l, built |-> n,
           value |-> Throw(FailedToLoad(fromEnvironment(e).v.message)) ]
    ELSE IF others = "throw"
    THEN [ loader |-> l, built |-> n,
           value |-> Throw(FailedToLoad(<< "others" >>)) ]
    ELSE LET obj == ApplicationConfig(n + 1, fromEnvironment(e).v)
         IN  [ loader |-> [l EXCEPT !.config = << obj >>],
               built |-> n + 1,
               value |-> Loaded(obj) ]

\* ConfigLoader.load under environment e when n objects have been built:
\* the loader afterwards, the number of objects built, and what is
\* returned or thrown
load(l, e, n, others) ==
    IF l.config # << >>
    THEN [ loader |-> l, built |-> n, value |-> Loaded(l.config[1]) ]
    ELSE IF fromEnvironment(e).t = "throw"
    THEN [ loader |-> l, built |-> n,
           value |-> Throw(FailedToLoad(fromEnvironment(e).v.message)) ]
    ELSE IF others = "throw"
    THEN [ loader |-> l, built |-> n,
           value |-> Throw(FailedToLoad(<< "others" >>)) ]
    ELSE LET obj == ApplicationConfig(n + 1, fromEnvironment(e).v)
         IN  [ loader |-> [l EXCEPT !.config = << obj >>],
               built |-> n + 1,
               value |-> Loaded(obj) ]

\* ConfigLoader.loadWithOverrides
loadWithOverrides(l, e, n, others, overrides) ==
    LET base == load(l, e, n, others)
    IN  IF base.value.t = "throw" THEN base
        ELSE IF overrides.anki # << >>
                /\ fromObject(overrides.anki[1]).t = "throw"
        THEN [base EXCEPT !.value = fromObject(overrides.anki[1])]
        ELSE LET obj == ApplicationConfig(
                           base.built + 1,
                           IF overrides.anki # << >>
                           THEN fromObject(overrides.anki[1]).v
                           ELSE base.value.v.anki)
             IN  [ loader |-> [base.loader EXCEPT !.config = << obj >>],
                   built |-> base.built + 1,
                   value |-> Loaded(obj) ]

\* ConfigLoader.reset
loaderReset(l) == [l EXCEPT !.config = << >>]

NotLoaded ==
    ConfigurationError(<< "Configuration not loaded. Call load() first." >>,
                       << >>)

\* mutant: an unloaded loader answers with a configuration of defaults
getConfigDefault(l) ==
    IF l.config = << >> THEN Loaded(ApplicationConfig(0, ConfigDefaults))
    ELSE Loaded(l.config[1])

\* ConfigLoader.getConfig: what it returns or throws
getConfig(l) ==
    IF l.config = << >> THEN Throw(NotLoaded) ELSE Loaded(l.config[1])

\* ConfigLoader.getAnkiConfig
getAnkiConfig(l) ==
    IF getConfig(l).t = "throw" THEN getConfig(l)
    ELSE Built(getConfig(l).v.anki)

-----------------------------------------------------------------------------
(* CacheManager.  A key is a sequence of fragments ("deck" "Stats:" "A"    *)
(* is the string deckStats:A), so that startsWith is a prefix test.        *)

DefaultTTL == 5 * 60 * 1000

\* mutant: only the first fragment of the prefix is compared
startsWithFirst(key, prefix) ==
    \/ prefix = <<>>
    \/ key # <<>> /\ Head(key) = Head(prefix)

startsWith(key, prefix) ==
    /\ Len(prefix) <= Len(key)
    /\ SubSeq(key, 1, Len(prefix)) = prefix

without(c, keys) == [k \in (DOMAIN c) \ keys |-> c[k]]

\* mutant: an entry counts as expired from the instant its ttl has elapsed
expiredAtTtl(entry, t) == t - entry.timestamp >= entry.ttl

\* the expiry test of get, cleanup and getStats
expired(entry, t) == t - entry.timestamp > entry.ttl

\* mutant: an expired entry is still returned
getStale(c, key, t) == IF key \notin DOMAIN c THEN JSNull ELSE c[key].data

\* CacheManager.get: the value returned
get(c, key, t) ==
    IF key \notin DOMAIN c THEN JSNull
    ELSE IF expired(c[key], t) THEN JSNull
    ELSE c[key].data

\* mutant: a read refreshes the timestamp of the entry it returns
afterGetTouching(c, key, t) ==
    IF key \notin DOMAIN c THEN c
    ELSE IF t - c[key].timestamp > c[key].ttl THEN without(c, {key})
    ELSE [c EXCEPT ![key].timestamp = t]

\* CacheManager.get: the map afterwards (lazy eviction)
afterGet(c, key, t) ==
    IF key \in DOMAIN c /\ expired(c[key], t) THEN without(c, {key}) ELSE c

\* mutant: an overwritten entry keeps its timestamp
setKeepsTimestamp(c, key, data, ttl, t) ==
    [k \in (DOMAIN c) \cup {key} |->
        IF k = key
        THEN [data |-> data,
              timestamp |-> IF key \in DOMAIN c THEN c[key].timestamp ELSE t,
              ttl |-> ttl]
        ELSE c[k]]

\* CacheManager.set
set(c, key, data, ttl, t) ==
    [k \in (DOMAIN c) \cup {key} |->
        IF k = key THEN [data |-> data, timestamp |-> t, ttl |-> ttl]
        ELSE c[k]]

\* CacheManager.delete
delete(c, key) == without(c, {key})

\* mutant: the prefix is taken as an exact key
deleteByPrefixExact(c, prefix) == without(c, {prefix})

\* CacheManager.deleteByPrefix
deleteByPrefix(c, prefix) ==
    without(c, {k \in DOMAIN c : startsWith(k, prefix)})

\* mutant: the sweep also takes the entries that are exactly ttl old
cleanupAtTtl(c, t) ==
    without(c, {k \in DOMAIN c : t - c[k].timestamp >= c[k].ttl})

\* CacheManager.cleanup
cleanup(c, t) == without(c, {k \in DOMAIN c : expired(c[k], t)})

\* CacheManager.getStats (memoryUsage, a formatted size, is left out)
getStats(c, t) ==
    [ totalEntries |-> Cardinality(DOMAIN c),
      expiredEntries |-> Cardinality({k \in DOMAIN c : expired(c[k], t)}) ]

\* CacheManager.clear
clear(c) == without(c, DOMAIN c)

-----------------------------------------------------------------------------
(* PerformanceMonitor.  Durations are whole milliseconds; avgTime, the     *)
(* quotient of two integers, is kept as the fraction num / den.            *)

Ratio(a, b) == [num |-> a, den |-> b]

\* mutant: the average is taken before the count is incremented
recordOperationAvgFirst(ops, name, duration, t) ==
    IF name \in DOMAIN ops
    THEN [ops EXCEPT ![name] =
            [ count |-> @.count + 1,
              totalTime |-> @.totalTime + duration,
              avgTime |-> Ratio(@.totalTime + duration, @.count),
              maxTime |-> Max(@.maxTime, duration),
              minTime |-> Min(@.minTime, duration),
              lastRun |-> t ]]
    ELSE [n \in (DOMAIN ops) \cup {name} |->
            IF n = name
            THEN [ count |-> 1, totalTime |-> duration,
                   avgTime |-> Ratio(duration, 1), maxTime |-> duration,
                   minTime |-> duration, lastRun |-> t ]
            ELSE ops[n]]

\* PerformanceMonitor.recordOperation, called by the stop closure at time t
recordOperation(ops, name, duration, t) ==
    IF name \in DOMAIN ops
    THEN [ops EXCEPT ![name] =
            [ count |-> @.count + 1,
              totalTime |-> @.totalTime + duration,
              avgTime |-> Ratio(@.totalTime + duration, @.count + 1),
              maxTime |-> Max(@.maxTime, duration),
              minTime |-> Min(@.minTime, duration),
              lastRun |-> t ]]
    ELSE [n \in (DOMAIN ops) \cup {name} |->
            IF n = name
            THEN [ count |-> 1, totalTime |-> duration,
                   avgTime |-> Ratio(duration, 1), maxTime |-> duration,
                   minTime |-> duration, lastRun |-> t ]
            ELSE ops[n]]

\* mutant: the closure measures from its own call, not from startOperation
stopTimerInstant(ops, name, started, t) ==
    IF started = <<>> THEN ops
    ELSE recordOperation(ops, name, 0, t)

\* the closure returned by startOperation, run at time t
stopTimer(ops, name, started, t) ==
    IF started = <<>> THEN ops
    ELSE recordOperation(ops, name, t - started[1], t)

\* PerformanceMonitor.reset
reset(ops) == [n \in {} |-> ops[n]]

SlowThreshold == 1000
FrequentThreshold == 50
UnstableFactor == 3
UnstableMinCount == 5

slowOps(ops) ==
    { n \in DOMAIN ops :
        ops[n].avgTime.num > SlowThreshold * ops[n].avgTime.den }

frequentOps(ops) == { n \in DOMAIN ops : ops[n].count > FrequentThreshold }

unstableOps(ops) ==
    { n \in DOMAIN ops :
        /\ ops[n].maxTime * ops[n].avgTime.den
               > ops[n].avgTime.num * UnstableFactor
        /\ ops[n].count > UnstableMinCount }

\* a suggestion: which message, and the number it quotes
Suggestion(msg, found) == [msg |-> msg, found |-> found]

PerformanceIsGood == Suggestion("good", 0)

\* PerformanceMonitor.getOptimizationSuggestions
getOptimizationSuggestions(ops) ==
    LET slow == IF slowOps(ops) # {}
                THEN << Suggestion("slow", Cardinality(slowOps(ops))) >>
                ELSE << >>
        frequent == IF frequentOps(ops) # {}
                    THEN << Suggestion("frequent",
                                       Cardinality(frequentOps(ops))) >>
                    ELSE << >>
        unstable == IF unstableOps(ops) # {}
                    THEN << Suggestion("unstable",
                                       Cardinality(unstableOps(ops))) >>
                    ELSE << >>
        suggestions == slow \o frequent \o unstable
    IN  IF Len(suggestions) > 0 THEN suggestions ELSE << PerformanceIsGood >>

-----------------------------------------------------------------------------
(* AnkiClient: the public methods *)

DeckNamesKey == <<"deck", "Names">>
DeckStatsKey(name) == <<"deck", "Stats:", name>>
ModelNamesKey == <<"model", "Names">>
ModelTemplatesKey(name) == <<"model", "Templates:", name>>
DeckPrefix == <<"deck">>

DeckNamesTtl == 2 * 60 * 1000
DeckStatsTtl == 1 * 60 * 1000
ModelNamesTtl == 5 * 60 * 1000
ModelTemplatesTtl == 10 * 60 * 1000
CleanupInterval == 5 * 60 * 1000

ModelArgs == {"M"}

ModelReads == [m : {"getModelTemplates"}, arg : ModelArgs]

CachedReads ==
    {[m |-> "getDeckNames", arg |-> "-"], [m |-> "getModelNames", arg |-> "-"]}
        \cup [m : {"getDeckStats"}, arg : StatsDecks]
        \cup ModelReads

DeckMutations == [m : {"createDeck", "deleteDeck"}, arg : DeckArgs]

\* arg: the deck the note is added to, or the deck holding the deleted notes
NoteMutations == [m : {"addNote", "deleteNotes"}, arg : StatsDecks]

\* arg: the model created or updated
ModelMutations == [m : {"createModel", "updateModelTemplates"}, arg : ModelArgs]

\* the calls on decks and notes
Calls == (CachedReads \ ModelReads) \cup DeckMutations \cup NoteMutations

NoCall == [m |-> "-", arg |-> "-"]

CheckConnection == [m |-> "checkConnection", arg |-> "-"]

cacheKey(c) ==
    CASE c.m = "getDeckNames" -> DeckNamesKey
      [] c.m = "getDeckStats" -> DeckStatsKey(c.arg)
      [] c.m = "getModelNames" -> ModelNamesKey
      [] c.m = "getModelTemplates" -> ModelTemplatesKey(c.arg)

ttlOf(c) ==
    CASE c.m = "getDeckNames" -> DeckNamesTtl
      [] c.m = "getDeckStats" -> DeckStatsTtl
      [] c.m = "getModelNames" -> ModelNamesTtl
      [] c.m = "getModelTemplates" -> ModelTemplatesTtl

\* the operationName each method passes ("unknown" is the parameter's default)
operationName(c) ==
    IF c.m \in {"addNote", "deleteNotes", "createModel", "updateModelTemplates"}
    THEN "unknown"
    ELSE c.m

\* the values the method's operation can resolve to
ResolveValues(c) ==
    IF c \in CachedReads THEN ReadValues \cup DeckLists ELSE WriteValues

\* what the public method returns for the value its wrapper returned
publicReturn(c, value) ==
    CASE c.m = "createDeck" ->
            IF value.t = "number" THEN value ELSE JSNumber("0")
      [] c.m \in {"deleteDeck", "deleteNotes", "createModel",
                  "updateModelTemplates"} -> JSUndefined
      [] c.m = "checkConnection" -> JSTrue
      [] OTHER -> value

\* the cache after the method's own invalidation, run on success
invalidate(c, cch) ==
    CASE c.m = "createDeck" -> deleteByPrefix(cch, DeckPrefix)
      [] c.m = "deleteDeck" ->
            delete(deleteByPrefix(cch, DeckPrefix), DeckStatsKey(c.arg))
      [] OTHER -> cch

\* history: the reads a successful mutation calls for again
staleAfter(c) ==
    CASE c \in DeckMutations -> {<<DeckNamesKey, "deck">>}
      [] c \in NoteMutations -> {<<DeckStatsKey(c.arg), "note">>}
      [] c.m = "createModel" -> {<<ModelNamesKey, "model">>}
      [] c.m = "updateModelTemplates" ->
            {<<ModelTemplatesKey(c.arg), "model">>}
      [] OTHER -> {}

-----------------------------------------------------------------------------
(* AnkiClient.executeWithRetry *)

BackoffBase == 1000

\* mutant: the loop has no bound
loopContinuesUnbounded(a, maxRetries) == TRUE

\* mutant: the loop stops one iteration early
loopContinuesExclusive(a, maxRetries) == a < maxRetries

\* the for loop's condition
loopContinues(a, maxRetries) == Less(a, maxRetries) \/ a = maxRetries

\* mutant: the wait before the last attempt is skipped too
shouldWaitButLast(a, maxRetries) == a < maxRetries - 1

\* "Don't wait on the last attempt"
shouldWait(a, maxRetries) == Less(a, maxRetries)

\* mutant: retryDelay taken as a floor instead of a ceiling
backoffDelayFloor(a, retryDelay) == Max(BackoffBase * Pow2(a), retryDelay)

\* the exponential backoff delay
backoffDelay(a, retryDelay) == Min(BackoffBase * Pow2(a), retryDelay)

NoOutcome ==
    [ kind |-> "none", resolved |-> JSUndefined, value |-> JSUndefined,
      ret |-> JSUndefined, error |-> <<>>, invalidated |-> {},
      thrown |-> <<>>, wrapped |-> <<>> ]

UnknownError == AnkiConnectionError(<<"Unknown error occurred">>, <<>>)

\* no direct call has been made
NoRet == [op |-> "-", arg |-> <<>>, value |-> JSUndefined, size |-> 0]

\* a direct call op(arg) returned value; size is history: the number of
\* cache entries held when the call was made
Ret(op, arg, value) ==
    [op |-> op, arg |-> arg, value |-> value, size |-> Cardinality(DOMAIN cache)]

\* the loop is at its condition with loop variable a and lastError err:
\* either the operation is invoked, or the loop is left and the call throws
LoopTop(p, a, err, t) ==
    /\ attempt' = [attempt EXCEPT ![p] = a]
    /\ lastError' = [lastError EXCEPT ![p] = err]
    /\ IF loopContinues(a, config.retryAttempts)
       THEN /\ invocations' = [invocations EXCEPT ![p] = @ + 1]
            /\ pc' = [pc EXCEPT ![p] = "awaitOp"]
            /\ UNCHANGED << outcome, operations >>
       ELSE /\ outcome' = [outcome EXCEPT ![p] =
                  [NoOutcome EXCEPT
                      !.kind = "error",
                      !.error = IF err # <<>> THEN err ELSE <<UnknownError>>,
                      !.thrown = << publicThrow(
                          IF err # <<>> THEN err[1] ELSE UnknownError) >>,
                      !.wrapped = << utilsPublicThrow(raised'[p]) >>]]
            /\ operations' = stopTimer(operations, operationName(call'[p]),
                                       startTime'[p], t)
            /\ pc' = [pc EXCEPT ![p] = "thrown"]
            /\ UNCHANGED invocations

-----------------------------------------------------------------------------
(* The state machine *)

InitWith(configs) ==
    /\ config \in configs
    /\ now = 0
    /\ ticks = 0
    /\ cache = [k \in {} |-> NoOutcome]
    /\ operations = [n \in {} |-> NoOutcome]
    /\ pc = [p \in Procs |-> "idle"]
    /\ call = [p \in Procs |-> NoCall]
    /\ attempt = [p \in Procs |-> 0]
    /\ lastError = [p \in Procs |-> <<>>]
    /\ startTime = [p \in Procs |-> <<>>]
    /\ invocations = [p \in Procs |-> 0]
    /\ sleeps = [p \in Procs |-> <<>>]
    /\ wakeAt = [p \in Procs |-> 0]
    /\ outcome = [p \in Procs |-> NoOutcome]
    /\ calls = 0
    /\ cleanups = 0
    /\ raised = [p \in Procs |-> <<>>]
    /\ refetch = {}
    /\ ret = NoRet
    /\ env = NoEnv
    /\ loader = NoLoader
    /\ built = 0
    /\ batch = NoBatch
    /\ ankiConnect = NoAnki

\* A public method is called.  Everything up to the first await runs at once:
\* executeWithCache's lookup and, on a miss or for a mutation,
\* executeWithRetry's prologue and the first invocation of the operation.
Start(p, c) ==
    /\ pc[p] = "idle"
    /\ UNCHANGED << ret, hostVars >>
    /\ calls' = calls + 1
    /\ call' = [call EXCEPT ![p] = c]
    /\ raised' = [raised EXCEPT ![p] = <<>>]
    /\ sleeps' = [sleeps EXCEPT ![p] = <<>>]
    /\ UNCHANGED << config, now, ticks, cleanups, wakeAt >>
    /\ IF c \in CachedReads
       THEN /\ cache' = afterGet(cache, cacheKey(c), now)
            /\ refetch' = {pr \in refetch : pr[1] # cacheKey(c)}
       ELSE UNCHANGED << cache, refetch >>
    /\ IF c \in CachedReads /\ get(cache, cacheKey(c), now) # JSNull
       THEN \* cache hit
            /\ outcome' = [outcome EXCEPT ![p] =
                  [NoOutcome EXCEPT
                      !.kind = "value",
                      !.value = get(cache, cacheKey(c), now),
                      !.ret = publicReturn(c, get(cache, cacheKey(c), now))]]
            /\ pc' = [pc EXCEPT ![p] = "returned"]
            /\ invocations' = [invocations EXCEPT ![p] = 0]
            /\ UNCHANGED << operations, attempt, lastError, startTime >>
       ELSE \* executeWithRetry
            /\ startTime' = [startTime EXCEPT ![p] = <<now>>]
            /\ invocations' = [invocations EXCEPT ![p] =
                  IF loopContinues(0, config.retryAttempts) THEN 1 ELSE 0]
            /\ attempt' = [attempt EXCEPT ![p] = 0]
            /\ lastError' = [lastError EXCEPT ![p] = <<>>]
            /\ IF loopContinues(0, config.retryAttempts)
               THEN /\ pc' = [pc EXCEPT ![p] = "awaitOp"]
                    /\ UNCHANGED << outcome, operations >>
               ELSE /\ outcome' = [outcome EXCEPT ![p] =
                          [NoOutcome EXCEPT
                              !.kind = "error",
                              !.error = <<UnknownError>>,
                              !.thrown = <<publicThrow(UnknownError)>>,
                              !.wrapped = <<utilsPublicThrow(<<>>)>>]]
                    /\ operations' = stopTimer(operations, operationName(c),
                                               <<now>>, now)
                    /\ pc' = [pc EXCEPT ![p] = "thrown"]

\* The awaited operation resolves to v: executeWithRetry returns it (its
\* finally block stops the timer) and the method finishes: a cached read
\* stores the value, a deck mutation invalidates.
Resolve(p, v) ==
    /\ pc[p] = "awaitOp"
    /\ UNCHANGED << ret, hostVars >>
    /\ v \in ResolveValues(call[p])
    /\ operations' = stopTimer(operations, operationName(call[p]),
                               startTime[p], now)
    /\ cache' = IF call[p] \in CachedReads
                THEN set(cache, cacheKey(call[p]), v, ttlOf(call[p]), now)
                ELSE invalidate(call[p], cache)
    /\ outcome' = [outcome EXCEPT ![p] =
          [NoOutcome EXCEPT
              !.kind = "value", !.resolved = v, !.value = v,
              !.ret = publicReturn(call[p], v),
              !.invalidated = (DOMAIN cache) \ (DOMAIN cache')]]
    /\ refetch' = refetch \cup staleAfter(call[p])
    /\ pc' = [pc EXCEPT ![p] = "returned"]
    /\ UNCHANGED << config, now, ticks, call, attempt, lastError, startTime,
                    invocations, sleeps, wakeAt, calls, cleanups, raised >>

\* The awaited operation rejects with e: the catch block normalizes it and
\* either starts the backoff sleep or goes on to the loop's next test.
Reject(p, e) ==
    /\ pc[p] = "awaitOp"
    /\ UNCHANGED << ret, hostVars >>
    /\ e \in ThrownValues
    /\ raised' = [raised EXCEPT ![p] = Append(@, e)]
    /\ UNCHANGED << config, now, ticks, cache, call, startTime, calls,
                    cleanups, refetch >>
    /\ IF shouldWait(attempt[p], config.retryAttempts)
       THEN /\ lastError' = [lastError EXCEPT ![p] = <<normalizeError(e)>>]
            /\ sleeps' = [sleeps EXCEPT ![p] =
                  Append(@, backoffDelay(attempt[p], config.retryDelay))]
            /\ wakeAt' = [wakeAt EXCEPT ![p] =
                  now + backoffDelay(attempt[p], config.retryDelay)]
            /\ pc' = [pc EXCEPT ![p] = "sleeping"]
            /\ UNCHANGED << attempt, invocations, outcome, operations >>
       ELSE /\ LoopTop(p, attempt[p] + 1, <<normalizeError(e)>>, now)
            /\ UNCHANGED << sleeps, wakeAt >>

\* The backoff timer fires, no earlier than it is due; the loop goes on.
Wake(p) ==
    /\ pc[p] = "sleeping"
    /\ UNCHANGED << ret, hostVars >>
    /\ now' = Max(now, wakeAt[p])
    /\ UNCHANGED << config, ticks, cache, call, startTime, sleeps, wakeAt,
                    calls, cleanups, raised, refetch >>
    /\ LoopTop(p, attempt[p] + 1, lastError[p], now')

\* The caller has taken the result; the call chain is gone.
Finish(p) ==
    /\ pc[p] \in {"returned", "thrown"}
    /\ UNCHANGED << ret, hostVars >>
    /\ pc' = [pc EXCEPT ![p] = "idle"]
    /\ call' = [call EXCEPT ![p] = NoCall]
    /\ attempt' = [attempt EXCEPT ![p] = 0]
    /\ lastError' = [lastError EXCEPT ![p] = <<>>]
    /\ startTime' = [startTime EXCEPT ![p] = <<>>]
    /\ invocations' = [invocations EXCEPT ![p] = 0]
    /\ sleeps' = [sleeps EXCEPT ![p] = <<>>]
    /\ wakeAt' = [wakeAt EXCEPT ![p] = 0]
    /\ outcome' = [outcome EXCEPT ![p] = NoOutcome]
    /\ raised' = [raised EXCEPT ![p] = <<>>]
    /\ UNCHANGED << config, now, ticks, cache, operations, calls, cleanups,
                    refetch >>

\* Time passes.
Tick(dt) ==
    /\ ticks < MaxTicks
    /\ UNCHANGED << ret, hostVars >>
    /\ ticks' = ticks + 1
    /\ now' = now + dt
    /\ UNCHANGED << config, cache, operations, pc, call, attempt, lastError,
                    startTime, invocations, sleeps, wakeAt, outcome, calls,
                    cleanups, raised, refetch >>

TickSteps == {CleanupInterval}

\* mutant: the callback runs without sweeping
CleanupTimerIdle ==
    /\ now >= (cleanups + 1) * CleanupInterval
    /\ UNCHANGED << ret, hostVars >>
    /\ cleanups' = cleanups + 1
    /\ UNCHANGED << config, now, ticks, cache, operations, pc, call, attempt,
                    lastError, startTime, invocations, sleeps, wakeAt,
                    outcome, calls, raised, refetch >>

\* The constructor's setInterval callback runs, once per elapsed period.
CleanupTimer ==
    /\ now >= (cleanups + 1) * CleanupInterval
    /\ UNCHANGED << ret, hostVars >>
    /\ cleanups' = cleanups + 1
    /\ cache' = cleanup(cache, now)
    /\ UNCHANGED << config, now, ticks, operations, pc, call, attempt,
                    lastError, startTime, invocations, sleeps, wakeAt,
                    outcome, calls, raised, refetch >>

AllIdle == \A q \in Procs : pc[q] = "idle"

\* the call chain the sequential specifications run
Caller == CHOOSE p \in Procs : TRUE

-----------------------------------------------------------------------------
(* The client under sequential use: one public call at a time, reads and   *)
(* mutations of decks and notes, the clock and the cleanup timer running.  *)
(* Retries are switched off, so no call sleeps.                            *)

\* retries switched off, and one retry, at the default delay
NoRetryConfigs ==
    { c \in AcceptedConfigs :
        c.retryAttempts = 0 /\ c.retryDelay = DefaultRetryDelay }

OneRetryConfigs ==
    { c \in AcceptedConfigs :
        c.retryAttempts = 1 /\ c.retryDelay = DefaultRetryDelay }

ClientThrown == { PlainError(<<"connect", "ECONNREFUSED">>) }

ClientValues == { JSArray(<<"Default", "Spanish">>), JSNumber("1") }

Init == InitWith(NoRetryConfigs)

Next ==
    \/ \E c \in Calls : AllIdle /\ calls < MaxCalls /\ Start(Caller, c)
    \/ \E p \in Procs, v \in ClientValues : Resolve(p, v)
    \/ \E p \in Procs, e \in ClientThrown : Reject(p, e)
    \/ \E p \in Procs : Finish(p)
    \/ \E dt \in TickSteps : Tick(dt)
    \/ CleanupTimer

Spec == Init /\ [][Next]_vars

-----------------------------------------------------------------------------
(* The cached reads under sequential use, resolving to every kind of       *)
(* value, with one retry.                                                  *)

MaxReadCalls == 2

ReadNext ==
    \/ \E c \in CachedReads :
          AllIdle /\ calls < MaxReadCalls /\ Start(Caller, c)
    \/ \E p \in Procs, v \in ReadValues : Resolve(p, v)
    \/ \E p \in Procs, e \in ClientThrown : Reject(p, e)
    \/ \E p \in Procs : Wake(p)
    \/ \E p \in Procs : Finish(p)
    \/ \E dt \in TickSteps : Tick(dt)
    \/ CleanupTimer

ReadInit == InitWith(OneRetryConfigs)

ReadSpec == ReadInit /\ [][ReadNext]_vars

-----------------------------------------------------------------------------
(* executeWithRetry on its own: one call on a fresh client, under every    *)
(* accepted configuration and every kind of thrown value.                  *)

RetryInit == InitWith(AcceptedConfigs)

RetryCalls == Calls \cup {CheckConnection}

RetryNext ==
    \/ \E c \in RetryCalls : calls = 0 /\ Start(Caller, c)
    \/ \E p \in Procs, v \in ReadValues \cup WriteValues : Resolve(p, v)
    \/ \E p \in Procs, e \in ThrownValues : Reject(p, e)
    \/ \E p \in Procs : Wake(p)
    \/ \E p \in Procs : Finish(p)

RetrySpec == RetryInit /\ [][RetryNext]_vars

\* the awaited operation of p settles
Settle(p) ==
    \/ \E v \in ClientValues : Resolve(p, v)
    \/ \E e \in ClientThrown : Reject(p, e)

\* one call while the clock runs, every invocation of the operation
\* settling and every timer that was set firing
SettlingNext ==
    \/ \E c \in RetryCalls : calls = 0 /\ Start(Caller, c)
    \/ \E p \in Procs : Settle(p)
    \/ \E p \in Procs : Wake(p)
    \/ \E p \in Procs : Finish(p)
    \/ \E dt \in TickSteps : Tick(dt)

SettlingSpec ==
    /\ RetryInit
    /\ [][SettlingNext]_vars
    /\ \A p \in Procs : WF_vars(Settle(p)) /\ WF_vars(Wake(p))

-----------------------------------------------------------------------------
(* The error functions on their own: normalizeError, toMcpError and        *)
(* isRecoverable applied to every kind of thrown value.                    *)

ErrorMessages ==
    { <<"boom">>,
      <<"connect", "ECONNREFUSED">>,
      <<"connection", "timeout">>,
      <<"ETIMEDOUT">>,
      <<"collection unavailable">>,
      <<"ECONNREFUSED", "timeout">>,
      <<"timeout", "collection unavailable">>,
      <<"ECONNREFUSED", "ETIMEDOUT", "collection unavailable">> }

\* a subclass of DomainError with any category and severity
CustomError(msg, category, severity) ==
    DomainError("CustomError", msg, "CUSTOM_ERROR", category, severity, <<>>)

ErrorInputs ==
    { PlainError(m) : m \in ErrorMessages }
        \cup { ThrownString(m) : m \in ErrorMessages }
        \cup { AnkiConnectionError(m, <<>>) : m \in ErrorMessages }
        \cup { AnkiTimeoutError(m, <<>>) : m \in ErrorMessages }
        \cup { AnkiApiError(m, <<>>) : m \in ErrorMessages }
        \cup { InvalidNoteError(m, <<>>) : m \in ErrorMessages }
        \cup { InvalidDeckError(m, <<>>) : m \in ErrorMessages }
        \cup { ConfigurationError(m, <<>>) : m \in ErrorMessages }
        \cup { McpProtocolError(m, <<>>) : m \in ErrorMessages }
        \cup { BusinessLogicError(m, <<>>) : m \in ErrorMessages }
        \cup { CustomError(m, c, sv) :
                  m \in {<<"boom">>, <<"connection", "timeout">>},
                  c \in ErrorCategory, sv \in ErrorSeverity }

\* everything but ret
clientVars ==
    << config, now, ticks, cache, operations, pc, call, attempt, lastError,
       startTime, invocations, sleeps, wakeAt, outcome, calls, cleanups,
       raised, refetch, hostVars >>

\* normalizeError(e) is called
NormalizeError(e) ==
    /\ ret' = Ret("normalizeError", e, normalizeError(e))
    /\ UNCHANGED clientVars

\* normalizeError is called on what the last normalizeError returned
NormalizeAgain ==
    /\ ret.op = "normalizeError"
    /\ ret' = Ret("normalizeError", ret.value, normalizeError(ret.value))
    /\ UNCHANGED clientVars

\* ErrorHandler.toMcpError(e) is called; e is an Error
ToMcpError(e) ==
    /\ e.isError
    /\ ret' = Ret("toMcpError", e, toMcpError(e))
    /\ UNCHANGED clientVars

\* ErrorHandler.isRecoverable(e) is called; e is an Error
IsRecoverable(e) ==
    /\ e.isError
    /\ ret' = Ret("isRecoverable", e, JSBool(isRecoverable(e)))
    /\ UNCHANGED clientVars

ErrorInit == InitWith(NoRetryConfigs)

ErrorNext ==
    \/ \E e \in ErrorInputs : NormalizeError(e)
    \/ NormalizeAgain
    \/ \E e \in ErrorInputs : ToMcpError(e)
    \/ \E e \in ErrorInputs : IsRecoverable(e)

ErrorSpec == ErrorInit /\ [][ErrorNext]_vars

-----------------------------------------------------------------------------
(* CacheManager on its own: direct calls on a cache of three keys, the     *)
(* clock advancing between them.                                           *)

CacheKeys ==
    { <<"deck", ":", "a">>, <<"deck", ":", "b">>, <<"model", ":", "c">> }

CachePrefixes == { <<>>, <<"deck">>, <<"deck", ":", "a">>, <<"model">> }

CacheValues == { JSNumber("1"), JSNumber("2") }

\* a ttl that one clock step outlasts and one that it reaches exactly
CacheTtls == { 500, 1000 }

CacheTickSteps == { 1000 }

\* every variable but cache, now, ticks and ret
callVars ==
    << config, operations, pc, call, attempt, lastError, startTime,
       invocations, sleeps, wakeAt, outcome, calls, cleanups, raised, refetch,
       hostVars >>

CacheGet(key) ==
    /\ ret' = Ret("get", key, get(cache, key, now))
    /\ cache' = afterGet(cache, key, now)
    /\ UNCHANGED << now, ticks, callVars >>

CacheSet(key, data, ttl) ==
    /\ ret' = Ret("set", key, JSUndefined)
    /\ cache' = set(cache, key, data, ttl, now)
    /\ UNCHANGED << now, ticks, callVars >>

\* set(key, data) with the ttl argument omitted
CacheSetDefault(key, data) ==
    /\ ret' = Ret("set", key, JSUndefined)
    /\ cache' = set(cache, key, data, DefaultTTL, now)
    /\ UNCHANGED << now, ticks, callVars >>

CacheDelete(key) ==
    /\ ret' = Ret("delete", key, JSBool(key \in DOMAIN cache))
    /\ cache' = delete(cache, key)
    /\ UNCHANGED << now, ticks, callVars >>

CacheDeleteByPrefix(prefix) ==
    /\ ret' = Ret("deleteByPrefix", prefix, JSUndefined)
    /\ cache' = deleteByPrefix(cache, prefix)
    /\ UNCHANGED << now, ticks, callVars >>

CacheCleanup ==
    /\ ret' = Ret("cleanup", <<>>, JSUndefined)
    /\ cache' = cleanup(cache, now)
    /\ UNCHANGED << now, ticks, callVars >>

CacheGetStats ==
    /\ ret' = Ret("getStats", <<>>, getStats(cache, now))
    /\ UNCHANGED << cache, now, ticks, callVars >>

CacheClear ==
    /\ ret' = Ret("clear", <<>>, JSUndefined)
    /\ cache' = clear(cache)
    /\ UNCHANGED << now, ticks, callVars >>

CacheInit == InitWith(NoRetryConfigs)

CacheNext ==
    \/ \E k \in CacheKeys : CacheGet(k)
    \/ \E k \in CacheKeys, v \in CacheValues, ttl \in CacheTtls :
          CacheSet(k, v, ttl)
    \/ \E k \in CacheKeys, v \in CacheValues : CacheSetDefault(k, v)
    \/ \E k \in CacheKeys : CacheDelete(k)
    \/ \E pre \in CachePrefixes : CacheDeleteByPrefix(pre)
    \/ CacheCleanup
    \/ CacheGetStats
    \/ CacheClear
    \/ \E dt \in CacheTickSteps : Tick(dt)

CacheSpec == CacheInit /\ [][CacheNext]_vars

-----------------------------------------------------------------------------
(* The performance monitor on its own: a monitor that has already recorded *)
(* some samples; timers are started and stopped while the clock advances,  *)
(* suggestions are asked for, and the monitor is reset.                    *)

MaxSamples == 2

MonitorNames == { "getDeckNames", "addNote" }

MonitorDurations == { 0, SlowThreshold, 4 * SlowThreshold }

MonitorTickSteps == { SlowThreshold, 4 * SlowThreshold }

SeedCounts == { 1, UnstableMinCount, FrequentThreshold }

\* when the samples a monitor starts with were recorded
SeedTime == 4 * SlowThreshold

\* the aggregates of a monitor after recordOperation(name, d) has run k
\* times, the last time at SeedTime
recordAll(name, k, d) ==
    IF k = 0 THEN << >>
    ELSE [n \in {name} |->
            [ count |-> k, totalTime |-> k * d, avgTime |-> Ratio(k * d, k),
              maxTime |-> d, minTime |-> d, lastRun |-> SeedTime ]]

\* what a monitor holds under one name after n samples: n - 1 of duration
\* d and one of duration last
SeedAggregates ==
    { recordOperation(recordAll("seed", n - 1, d), "seed",
                      last, SeedTime)["seed"] :
        n \in SeedCounts,
        d \in MonitorDurations \ {4 * SlowThreshold},
        last \in MonitorDurations \ {0} }

\* a monitor that has recorded nothing, or samples under one name
SeedOperations ==
    UNION { [names -> SeedAggregates] :
              names \in {{}} \cup { {n} : n \in MonitorNames } }

\* startOperation(name): the closure p holds the start time
MonitorStart(p, name) ==
    /\ pc[p] = "idle"
    /\ calls < MaxSamples
    /\ calls' = calls + 1
    /\ pc' = [pc EXCEPT ![p] = "timing"]
    /\ call' = [call EXCEPT ![p] = [m |-> name, arg |-> "-"]]
    /\ startTime' = [startTime EXCEPT ![p] = <<now>>]
    /\ ret' = Ret("startOperation", <<name>>, JSUndefined)
    /\ UNCHANGED << config, now, ticks, cache, operations, attempt, lastError,
                    invocations, sleeps, wakeAt, outcome, cleanups, raised,
                    refetch, hostVars >>

\* the closure p is called
MonitorStop(p) ==
    /\ pc[p] = "timing"
    /\ operations' = stopTimer(operations, call[p].m, startTime[p], now)
    /\ pc' = [pc EXCEPT ![p] = "idle"]
    /\ call' = [call EXCEPT ![p] = NoCall]
    /\ startTime' = [startTime EXCEPT ![p] = <<>>]
    /\ ret' = Ret("stopTimer", <<call[p].m>>, JSUndefined)
    /\ UNCHANGED << config, now, ticks, cache, attempt, lastError,
                    invocations, sleeps, wakeAt, outcome, calls, cleanups,
                    raised, refetch, hostVars >>

MonitorGetOptimizationSuggestions ==
    /\ ret' = Ret("getOptimizationSuggestions", <<>>,
                  JSArray(getOptimizationSuggestions(operations)))
    /\ UNCHANGED clientVars

MonitorReset ==
    /\ operations' = reset(operations)
    /\ ret' = Ret("reset", <<>>, JSUndefined)
    /\ UNCHANGED << config, now, ticks, cache, pc, call, attempt, lastError,
                    startTime, invocations, sleeps, wakeAt, outcome, calls,
                    cleanups, raised, refetch, hostVars >>

MonitorInit ==
    /\ config \in NoRetryConfigs
    /\ now = SeedTime
    /\ ticks = 0
    /\ cache = [k \in {} |-> NoOutcome]
    /\ operations \in SeedOperations
    /\ pc = [p \in Procs |-> "idle"]
    /\ call = [p \in Procs |-> NoCall]
    /\ attempt = [p \in Procs |-> 0]
    /\ lastError = [p \in Procs |-> <<>>]
    /\ startTime = [p \in Procs |-> <<>>]
    /\ invocations = [p \in Procs |-> 0]
    /\ sleeps = [p \in Procs |-> <<>>]
    /\ wakeAt = [p \in Procs |-> 0]
    /\ outcome = [p \in Procs |-> NoOutcome]
    /\ calls = 0
    /\ cleanups = 0
    /\ raised = [p \in Procs |-> <<>>]
    /\ refetch = {}
    /\ ret = NoRet
    /\ env = NoEnv
    /\ loader = NoLoader
    /\ built = 0
    /\ batch = NoBatch
    /\ ankiConnect = NoAnki

MonitorNext ==
    \/ \E p \in Procs, name \in MonitorNames : MonitorStart(p, name)
    \/ \E p \in Procs : MonitorStop(p)
    \/ MonitorGetOptimizationSuggestions
    \/ MonitorReset
    \/ \E dt \in MonitorTickSteps : Tick(dt)

MonitorSpec == MonitorInit /\ [][MonitorNext]_vars

-----------------------------------------------------------------------------
(* AnkiConfig on its own: instances are built in each of the four ways     *)
(* from arguments, objects, overrides and the environment, while the       *)
(* environment changes; an instance that was built becomes the receiver    *)
(* of later withOverrides calls.                                           *)

\* arguments, objects and overrides: each field absent or given
ConfigArgs ==
    [ url : { << >>, << << "localhost" >> >> },
      apiVersion : { << >> },
      timeout : { << >>, << TimeoutMax + 1 >> },
      retryAttempts : { << >>, << 0 >>, << RetryAttemptsMax + 1 >> },
      retryDelay : { << >> },
      defaultDeck : { << >>, << << " " >> >> } ]

\* what the variables of the environment are set to: unset, "", digits,
\* letters, digits followed by letters
EnvSettings ==
    ({"ANKI_RETRY_ATTEMPTS"}
        \X { << >>, << << >> >>, << << "0" >> >>, << << "1", "1" >> >>,
             << << "x" >> >>, << << "2", "x" >> >> })
    \cup ({"ANKI_RETRY_DELAY"} \X { << >>, << << "5", "0" >> >> })

\* the environments the model runs under
Envs ==
    { [NoEnv EXCEPT !.ANKI_RETRY_ATTEMPTS = a[2], !.ANKI_RETRY_DELAY = d[2]] :
        a \in { x \in EnvSettings : x[1] = "ANKI_RETRY_ATTEMPTS" },
        d \in { x \in EnvSettings : x[1] = "ANKI_RETRY_DELAY" } }

configFrame ==
    << now, ticks, cache, operations, pc, call, attempt, lastError,
       startTime, invocations, sleeps, wakeAt, outcome, calls, cleanups,
       raised, refetch, loader, built, batch, ankiConnect >>

\* process.env[name] = value, or delete process.env[name]
SetEnv(name, value) ==
    /\ env[name] # value
    /\ env' = [env EXCEPT ![name] = value]
    /\ UNCHANGED << config, ret, configFrame >>

ConfigNew(args) ==
    /\ ret' = Ret("new AnkiConfig", args, AnkiConfig(args))
    /\ UNCHANGED << config, env, configFrame >>

ConfigFromEnvironment ==
    /\ ret' = Ret("fromEnvironment", << >>, fromEnvironment(env))
    /\ UNCHANGED << config, env, configFrame >>

ConfigFromObject(o) ==
    /\ ret' = Ret("fromObject", o, fromObject(o))
    /\ UNCHANGED << config, env, configFrame >>

\* config.withOverrides(o): no field of the receiver is assigned
ConfigWithOverrides(o) ==
    /\ ret' = Ret("withOverrides", o, withOverrides(config, o))
    /\ UNCHANGED << config, env, configFrame >>

\* the instance the last call built is the one the program goes on with
ConfigAdopt ==
    /\ ret.value.t = "AnkiConfig"
    /\ config # ret.value.v
    /\ config' = ret.value.v
    /\ UNCHANGED << ret, env, configFrame >>

ConfigInit == InitWith(NoRetryConfigs)

ConfigNext ==
    \/ \E s \in EnvSettings : SetEnv(s[1], s[2])
    \/ \E args \in ConfigArgs : ConfigNew(args)
    \/ ConfigFromEnvironment
    \/ \E o \in ConfigArgs : ConfigFromObject(o)
    \/ \E o \in ConfigArgs : ConfigWithOverrides(o)
    \/ ConfigAdopt

ConfigSpec == ConfigInit /\ [][ConfigNext]_vars

-----------------------------------------------------------------------------
(* ConfigLoader on its own: getInstance, load, loadWithOverrides and reset *)
(* are called while the environment changes.                               *)

MaxBuilt == 2
MaxLoads == 3

OtherSections == { "ok", "throw" }

\* overrides of the anki section: none, an empty one, a valid one, a
\* rejected one
LoaderOverrides ==
    [ anki : { << >> } \cup
             { << o >> : o \in { a \in ConfigArgs :
                                   /\ a.url = << >>
                                   /\ a.timeout = << >>
                                   /\ a.defaultDeck = << >> } } ]

loaderFrame ==
    << config, now, ticks, cache, operations, pc, call, attempt, lastError,
       startTime, invocations, sleeps, wakeAt, outcome, cleanups, raised,
       refetch, batch, ankiConnect >>

LoaderGetInstance ==
    /\ loader' = getInstance(loader)
    /\ ret' = Ret("getInstance", << >>,
                  [t |-> "ConfigLoader", v |-> loader'.instance])
    /\ UNCHANGED << env, built, calls, loaderFrame >>

\* ConfigLoader.getInstance().load()
LoaderLoad(others) ==
    /\ loader.instance # << >>
    /\ calls < MaxLoads
    /\ loader.config # << >> \/ built < MaxBuilt
    /\ calls' = calls + 1
    /\ loader' = load(loader, env, built, others).loader
    /\ built' = load(loader, env, built, others).built
    /\ ret' = Ret("load", env, load(loader, env, built, others).value)
    /\ UNCHANGED << env, loaderFrame >>

LoaderLoadWithOverrides(others, overrides) ==
    /\ loader.instance # << >>
    /\ built + 1 < MaxBuilt
    /\ loader' = loadWithOverrides(loader, env, built, others, overrides).loader
    /\ built' = loadWithOverrides(loader, env, built, others, overrides).built
    /\ ret' = Ret("loadWithOverrides", overrides,
                  loadWithOverrides(loader, env, built, others, overrides).value)
    /\ UNCHANGED << env, calls, loaderFrame >>

LoaderReset ==
    /\ loader.instance # << >>
    /\ loader' = loaderReset(loader)
    /\ ret' = Ret("reset", << >>, JSUndefined)
    /\ UNCHANGED << env, built, calls, loaderFrame >>

LoaderGetConfig ==
    /\ loader.instance # << >>
    /\ ret' = Ret("getConfig", << >>, getConfig(loader))
    /\ UNCHANGED << env, loader, built, calls, loaderFrame >>

LoaderGetAnkiConfig ==
    /\ loader.instance # << >>
    /\ ret' = Ret("getAnkiConfig", << >>, getAnkiConfig(loader))
    /\ UNCHANGED << env, loader, built, calls, loaderFrame >>

LoaderInit == InitWith(NoRetryConfigs)

LoaderNext ==
    \/ \E s \in EnvSettings : SetEnv(s[1], s[2])
    \/ LoaderGetInstance
    \/ \E others \in OtherSections : LoaderLoad(others)
    \/ \E others \in OtherSections, o \in LoaderOverrides :
          LoaderLoadWithOverrides(others, o)
    \/ LoaderReset
    \/ LoaderGetConfig
    \/ LoaderGetAnkiConfig

LoaderSpec == LoaderInit /\ [][LoaderNext]_vars

-----------------------------------------------------------------------------
(* executeWithRetry of a client whose configuration was loaded from the    *)
(* environment: one call on a fresh client.                                *)

\* the configurations fromEnvironment returns
EnvConfigs ==
    { fromEnvironment(e).v : e \in { x \in Envs :
                                       fromEnvironment(x).t = "AnkiConfig" } }

EnvRetryInit == InitWith(EnvConfigs)

EnvRetrySpec == EnvRetryInit /\ [][RetryNext]_vars

-----------------------------------------------------------------------------
(* The cleanup timer of a client over the cache: entries are stored and    *)
(* read, the clock advances, and the setInterval callback fires when it is *)
(* due: the event loop runs a due timer before the clock passes it, and it *)
(* keeps running it (weak fairness).                                       *)

TimerTtls == { DeckStatsTtl, ModelNamesTtl }

\* the clock advances, not beyond a firing of the timer that is due
TimedTick(dt) ==
    /\ now + dt <= (cleanups + 1) * CleanupInterval
    /\ Tick(dt)

TimerInit == InitWith(NoRetryConfigs)

TimerNext ==
    \/ \E k \in CacheKeys, ttl \in TimerTtls : CacheSet(k, JSNumber("1"), ttl)
    \/ \E k \in CacheKeys : CacheGet(k)
    \/ \E dt \in TickSteps : TimedTick(dt)
    \/ CleanupTimer

TimerSpec == TimerInit /\ [][TimerNext]_vars /\ WF_vars(CleanupTimer)

-----------------------------------------------------------------------------
(* BatchOptimizer.processBatch: the items are cut into batches, then       *)
(* min(maxConcurrency, batches.length) workers run processQueue, each on   *)
(* the array it was passed.  A worker runs synchronously up to its await   *)
(* of processor(batch) and again from the settlement to the next await.    *)

MaxItems == 3

BatchSizes == { 1, 2 }
Concurrencies == { 1, 2 }

\* the items of a call: n distinct values
Items(n) == [ k \in 1 .. n |-> k ]

\* Array.prototype.slice(lo, hi) for integers 0 <= lo
slice(items, lo, hi) == SubSeq(items, lo + 1, Min(hi, Len(items)))

\* for (let i = 0; i < items.length; i += batchSize) batches.push(slice)
RECURSIVE batchesFrom(_, _, _)
batchesFrom(items, i, batchSize) ==
    IF i < Len(items)
    THEN << slice(items, i, i + batchSize) >>
            \o batchesFrom(items, i + batchSize, batchSize)
    ELSE << >>

\* the array worker w is passed: processQueue([...batches])
workerQueue(batches, w) == batches

\* the top of the while loop of worker w: the next batch is shifted and
\* handed to the processor, or the worker's promise resolves
processQueue(b, w) ==
    IF b.batchQueue[w] # << >>
    THEN [ b EXCEPT !.batchQueue[w] = Tail(@),
                    !.awaiting[w] = << Head(b.batchQueue[w]) >>,
                    !.handed = Append(@, Head(b.batchQueue[w])) ]
    ELSE [ b EXCEPT !.awaiting[w] = << >>,
                    !.finished = @ \cup { w } ]

\* Array.from({length}, () => processQueue(...)): workers w .. n start in
\* order
RECURSIVE startWorkers(_, _, _)
startWorkers(b, w, n) ==
    IF w > n THEN b ELSE startWorkers(processQueue(b, w), w + 1, n)

batchFrame ==
    << config, now, ticks, cache, operations, pc, call, attempt, lastError,
       startTime, invocations, sleeps, wakeAt, outcome, calls, cleanups,
       raised, refetch, env, loader, built, ankiConnect >>

\* processBatch(items, processor, {batchSize, maxConcurrency, onProgress})
\* up to await Promise.all(workers)
ProcessBatch(n, batchSize, maxConcurrency) ==
    /\ batch.phase = "idle"
    /\ LET items == Items(n)
           batches == batchesFrom(items, 0, batchSize)
           workers == 1 .. Min(maxConcurrency, Len(batches))
       IN batch' = startWorkers(
              [ phase |-> "processBatch",
                items |-> items,
                batches |-> batches,
                batchQueue |-> [ w \in workers |-> workerQueue(batches, w) ],
                awaiting |-> [ w \in workers |-> << >> ],
                finished |-> { },
                results |-> << >>,
                completed |-> 0,
                progress |-> << >>,
                handed |-> << >>,
                failed |-> FALSE ],
              1, Min(maxConcurrency, Len(batches)))
    /\ UNCHANGED << ret, batchFrame >>

\* processor(batch) of worker w resolves with one result per item
ProcessorResolve(w) ==
    /\ batch.phase = "processBatch"
    /\ w \in DOMAIN batch.awaiting
    /\ batch.awaiting[w] # << >>
    /\ LET b == batch.awaiting[w][1]
       IN batch' = processQueue(
              [ batch EXCEPT !.results = @ \o b,
                             !.completed = @ + Len(b),
                             !.progress = Append(@, batch.completed + Len(b)) ],
              w)
    /\ UNCHANGED << ret, batchFrame >>

\* processor(batch) of worker w rejects: logged, the worker goes on
ProcessorReject(w) ==
    /\ batch.phase = "processBatch"
    /\ w \in DOMAIN batch.awaiting
    /\ batch.awaiting[w] # << >>
    /\ batch' = processQueue([ batch EXCEPT !.failed = TRUE ], w)
    /\ UNCHANGED << ret, batchFrame >>

\* await Promise.all(workers); return results
ProcessBatchReturn ==
    /\ batch.phase = "processBatch"
    /\ batch.finished = DOMAIN batch.awaiting
    /\ batch' = [ batch EXCEPT !.phase = "returned" ]
    /\ ret' = Ret("processBatch", << >>, JSArray(batch.results))
    /\ UNCHANGED batchFrame

BatchWorkers == UNION { 1 .. c : c \in Concurrencies }

BatchInit == InitWith(NoRetryConfigs)

BatchNext ==
    \/ \E n \in 0 .. MaxItems, s \in BatchSizes, c \in Concurrencies :
          ProcessBatch(n, s, c)
    \/ \E w \in BatchWorkers : ProcessorResolve(w)
    \/ \E w \in BatchWorkers : ProcessorReject(w)
    \/ ProcessBatchReturn

BatchSpec == BatchInit /\ [][BatchNext]_vars

-----------------------------------------------------------------------------
(* BatchOptimizer.adaptiveBatch: one loop over the items whose step is the *)
(* current batch size.  The size and the loop variable are JavaScript      *)
(* numbers, here exact fractions in lowest terms.  A processor call that   *)
(* settles is given the weak fairness of the event loop.                   *)

DefaultBatchSize == 50
TargetLatency == 500
GrowLimit == 100
ShrinkLimit == 10

RECURSIVE gcd(_, _)
gcd(a, b) == IF b = 0 THEN a ELSE gcd(b, a % b)

\* the number a / b, b > 0, in lowest terms
Frac(a, b) ==
    LET g == gcd(IF a < 0 THEN -a ELSE a, b)
    IN IF a = 0 THEN Ratio(0, 1) ELSE Ratio(a \div g, b \div g)

fracInt(n) == Ratio(n, 1)
fracAdd(x, y) == Frac(x.num * y.den + y.num * x.den, x.den * y.den)
fracSub(x, y) == Frac(x.num * y.den - y.num * x.den, x.den * y.den)
fracMul(x, a, b) == Frac(x.num * a, x.den * b)
fracLess(x, y) == x.num * y.den < y.num * x.den
fracMin(x, y) == IF fracLess(y, x) THEN y ELSE x
fracMax(x, y) == IF fracLess(x, y) THEN y ELSE x

\* ToIntegerOrInfinity of a number that is not negative
trunc(x) == x.num \div x.den

\* the batch size after a call that took duration
adjust(size, duration) ==
    IF 2 * duration < TargetLatency /\ fracLess(size, fracInt(GrowLimit))
    THEN fracMin(fracMul(size, 3, 2), fracInt(GrowLimit))
    ELSE IF duration > TargetLatency /\ fracLess(fracInt(ShrinkLimit), size)
         THEN fracMax(fracMul(size, 4, 5), fracInt(ShrinkLimit))
         ELSE size

\* the batch size after a call that was rejected
halve(size) == fracMax(fracMul(size, 1, 2), fracInt(1))

\* the loop at its condition: the next batch is handed to the processor, or
\* the loop is left; invoked is history, the parity of the number of
\* processor calls made
adaptiveLoop(b, t) ==
    IF fracLess(b.i, fracInt(Len(b.items)))
    THEN [ b EXCEPT !.awaiting =
                        << slice(b.items, trunc(b.i),
                                 trunc(fracAdd(b.i, b.currentBatchSize))) >>,
                    !.startTime = t,
                    !.invoked = (@ + 1) % 2 ]
    ELSE [ b EXCEPT !.awaiting = << >>, !.phase = "returned" ]

\* what the caller sees of a step that leaves batch' behind
adaptiveRet ==
    ret' = IF batch'.phase = "returned"
           THEN Ret("adaptiveBatch", << >>, JSArray(batch'.results))
           ELSE ret

adaptiveFrame ==
    << config, ticks, cache, operations, pc, call, attempt, lastError,
       startTime, invocations, sleeps, wakeAt, outcome, calls, cleanups,
       raised, refetch, env, loader, built, ankiConnect >>

\* adaptiveBatch(items, processor) up to the first await
AdaptiveBatch(n) ==
    /\ batch.phase = "idle"
    /\ batch' = adaptiveLoop([ phase |-> "adaptiveBatch",
                               items |-> Items(n),
                               currentBatchSize |-> fracInt(DefaultBatchSize),
                               i |-> fracInt(0),
                               awaiting |-> << >>,
                               startTime |-> now,
                               results |-> << >>,
                               invoked |-> 0 ], now)
    /\ adaptiveRet
    /\ UNCHANGED << now, adaptiveFrame >>

\* the processor resolves after dt with one result per item
AdaptiveResolve(dt) ==
    /\ batch.phase = "adaptiveBatch"
    /\ now' = now + dt
    /\ LET size == adjust(batch.currentBatchSize, now' - batch.startTime)
       IN batch' = adaptiveLoop(
              [ batch EXCEPT !.results = @ \o batch.awaiting[1],
                             !.currentBatchSize = size,
                             !.i = fracAdd(@, size) ],
              now')
    /\ adaptiveRet
    /\ UNCHANGED adaptiveFrame

\* the processor rejects: the size is halved, i is taken back by it and
\* the loop adds it again
AdaptiveReject ==
    /\ batch.phase = "adaptiveBatch"
    /\ LET size == halve(batch.currentBatchSize)
       IN batch' = adaptiveLoop(
              [ batch EXCEPT !.currentBatchSize = size,
                             !.i = fracAdd(fracSub(@, size), size) ],
              now)
    /\ adaptiveRet
    /\ UNCHANGED << now, adaptiveFrame >>

AdaptiveDurations == { 0, TargetLatency, 2 * TargetLatency }

AdaptiveInit == InitWith(NoRetryConfigs)

AdaptiveNext ==
    \/ \E n \in 0 .. MaxItems : AdaptiveBatch(n)
    \/ \E dt \in AdaptiveDurations : AdaptiveResolve(dt)
    \/ AdaptiveReject

AdaptiveSpec ==
    AdaptiveInit /\ [][AdaptiveNext]_vars /\ WF_vars(AdaptiveNext)

-----------------------------------------------------------------------------
(* getDeckNames on a client whose configuration asks for two retries: the  *)
(* configuration is built with new AnkiConfig, the client is constructed   *)
(* on it, and getDeckNames is called while the transport refuses the       *)
(* connection or answers.                                                  *)

GetDeckNames == [m |-> "getDeckNames", arg |-> "-"]

\* two retries, with a delay below the accepted range and the smallest
\* accepted one
TwoRetryArgs ==
    { [ url |-> << >>, apiVersion |-> << >>, timeout |-> << >>,
        retryAttempts |-> << 2 >>, retryDelay |-> << d >>,
        defaultDeck |-> << >> ] : d \in { 50, RetryDelayMin } }

TwoRetryInit == InitWith(NoRetryConfigs)

TwoRetryNext ==
    \/ \E args \in TwoRetryArgs : calls = 0 /\ ConfigNew(args)
    \/ calls = 0 /\ ConfigAdopt
    \/ AllIdle /\ calls < MaxReadCalls /\ Start(Caller, GetDeckNames)
    \/ \E p \in Procs, v \in ClientValues : Resolve(p, v)
    \/ \E p \in Procs, e \in ClientThrown : Reject(p, e)
    \/ \E p \in Procs : Wake(p)
    \/ \E p \in Procs : Finish(p)
    \/ \E dt \in TickSteps : Tick(dt)

TwoRetrySpec == TwoRetryInit /\ [][TwoRetryNext]_vars

-----------------------------------------------------------------------------
(* The client under concurrent use: each call chain makes a call of its    *)
(* own while the other's is in flight.  Anki handles a request at some     *)
(* moment between the invocation and the settlement; the responses reach   *)
(* the client in any order.  Retries are switched off.                     *)

ConcurrentCalls ==
    { GetDeckNames } \cup [ m : { "createDeck" }, arg : DeckArgs ]

\* the decks Anki holds after handling call c
handled(c, decks) ==
    IF c.m = "createDeck" /\ (\A i \in DOMAIN decks : decks[i] # c.arg)
    THEN Append(decks, c.arg)
    ELSE decks

\* what Anki answers to call c when it holds decks
answer(c, decks) == IF c.m = "getDeckNames" THEN JSArray(decks) ELSE JSNumber("1")

\* Anki handles the request of call chain p and sends its response
AnkiHandle(p) ==
    /\ pc[p] = "awaitOp"
    /\ ankiConnect.response[p] = << >>
    /\ LET decks == handled(call[p], ankiConnect.decks)
       IN ankiConnect' =
              [ decks |-> decks,
                response |-> [ ankiConnect.response EXCEPT
                                 ![p] = << answer(call[p], decks) >> ] ]
    /\ UNCHANGED << config, now, ticks, cache, operations, pc, call, attempt,
                    lastError, startTime, invocations, sleeps, wakeAt,
                    outcome, calls, cleanups, raised, refetch, ret, env,
                    loader, built, batch >>

ConcurrentInit == InitWith(NoRetryConfigs)

ConcurrentNext ==
    \/ \E p \in Procs, c \in ConcurrentCalls :
          /\ calls < MaxCalls
          /\ ankiConnect.response[p] = << >>
          /\ Start(p, c)
    \/ \E p \in Procs : AnkiHandle(p)
    \/ \E p \in Procs :
          /\ ankiConnect.response[p] # << >>
          /\ Resolve(p, ankiConnect.response[p][1])
    \/ \E p \in Procs, e \in ClientThrown : Reject(p, e)
    \/ \E p \in Procs : Finish(p)

ConcurrentSpec == ConcurrentInit /\ [][ConcurrentNext]_vars

-----------------------------------------------------------------------------
(* The model methods under sequential use: the names and the templates of  *)
(* models are read, models are created and their templates updated.        *)
(* Retries are switched off.                                               *)

ModelCalls ==
    { [m |-> "getModelNames", arg |-> "-"] } \cup ModelReads
        \cup ModelMutations

ModelInit == InitWith(NoRetryConfigs)

ModelNext ==
    \/ \E c \in ModelCalls : AllIdle /\ calls < MaxCalls /\ Start(Caller, c)
    \/ \E p \in Procs, v \in ClientValues \cup WriteValues : Resolve(p, v)
    \/ \E p \in Procs, e \in ClientThrown : Reject(p, e)
    \/ \E p \in Procs : Finish(p)
    \/ \E dt \in TickSteps : Tick(dt)

ModelSpec == ModelInit /\ [][ModelNext]_vars

-----------------------------------------------------------------------------
(* CacheConfig: the constructor with its default parameters and its        *)
(* validation, fromObject and disabled.                                    *)

CacheDefaultTtl == 300000
CacheDefaultMaxSize == 1000
CacheDefaultCleanupInterval == 300000
CacheTtlMin == 1000
CacheTtlMax == 3600000
CacheMaxSizeMin == 10
CacheMaxSizeMax == 100000
CacheCleanupMin == 10000
CacheCleanupMax == 3600000

CacheFields ==
    { "enabled", "defaultTtl", "maxSize", "cleanupInterval",
      "performanceMonitoring" }

CacheDefaults ==
    [ enabled |-> TRUE, defaultTtl |-> CacheDefaultTtl,
      maxSize |-> CacheDefaultMaxSize,
      cleanupInterval |-> CacheDefaultCleanupInterval,
      performanceMonitoring |-> TRUE ]

\* CacheConfig.validate: the errors it collects
cacheValidationErrors(c) ==
    (IF c.defaultTtl < CacheTtlMin \/ c.defaultTtl > CacheTtlMax
     THEN << "Invalid default TTL" >> ELSE << >>)
    \o (IF c.maxSize < CacheMaxSizeMin \/ c.maxSize > CacheMaxSizeMax
        THEN << "Invalid max size" >> ELSE << >>)
    \o (IF c.cleanupInterval < CacheCleanupMin
           \/ c.cleanupInterval > CacheCleanupMax
        THEN << "Invalid cleanup interval" >> ELSE << >>)

\* new CacheConfig(...): default parameters, assignments, validate()
CacheConfig(args) ==
    LET this == [f \in CacheFields |->
                    IF args[f] = << >> THEN CacheDefaults[f] ELSE args[f][1]]
    IN  IF cacheValidationErrors(this) = << >>
        THEN [t |-> "CacheConfig", v |-> this]
        ELSE Throw(ConfigurationError(
                 << "Cache configuration validation failed: " >>
                     \o cacheValidationErrors(this), << >>))

\* CacheConfig.fromObject
cacheFromObject(o) == CacheConfig(o)

\* CacheConfig.disabled
cacheDisabled ==
    CacheConfig([ enabled |-> << FALSE >>, defaultTtl |-> << 0 >>,
                  maxSize |-> << 0 >>, cleanupInterval |-> << 0 >>,
                  performanceMonitoring |-> << FALSE >> ])

\* arguments and objects: each field absent or given
CacheArgs ==
    [ enabled : { << >>, << TRUE >>, << FALSE >> },
      defaultTtl : { << >>, << 0 >>, << CacheTtlMin >>, << CacheTtlMax + 1 >> },
      maxSize : { << >>, << 0 >>, << CacheMaxSizeMin >> },
      cleanupInterval : { << >>, << 0 >>, << CacheCleanupMin >> },
      performanceMonitoring : { << >>, << FALSE >> } ]

CacheConfigNew(args) ==
    /\ ret' = Ret("new CacheConfig", args, CacheConfig(args))
    /\ UNCHANGED << config, env, configFrame >>

CacheConfigFromObject(o) ==
    /\ ret' = Ret("CacheConfig.fromObject", o, cacheFromObject(o))
    /\ UNCHANGED << config, env, configFrame >>

CacheConfigDisabled ==
    /\ ret' = Ret("CacheConfig.disabled", << >>, cacheDisabled)
    /\ UNCHANGED << config, env, configFrame >>

CacheConfigInit == InitWith(NoRetryConfigs)

CacheConfigNext ==
    \/ \E args \in CacheArgs : CacheConfigNew(args)
    \/ \E o \in CacheArgs : CacheConfigFromObject(o)
    \/ CacheConfigDisabled

CacheConfigSpec == CacheConfigInit /\ [][CacheConfigNext]_vars

-----------------------------------------------------------------------------
(* Claims on executeWithRetry (RetrySpec) *)

EconnRefused == PlainError(<<"connect", "ECONNREFUSED">>)

\* C1: an operation that fails on every invocation, whatever it throws, is
\* invoked exactly maxRetries + 1 times with exactly maxRetries backoff
\* sleeps, and the call then throws the normalized error of the last attempt.
C1_RetryExhaustion ==
    \A p \in Procs :
        pc[p] = "thrown" =>
            /\ invocations[p] = config.retryAttempts + 1
            /\ Len(raised[p]) = config.retryAttempts + 1
            /\ Len(sleeps[p]) = config.retryAttempts
            /\ outcome[p].kind = "error"
            /\ outcome[p].error = <<normalizeError(Last(raised[p]))>>

\* C1 witness: a call has thrown after maxRetries + 1 attempts that all
\* raised a CRITICAL-severity error.
C1_Witness ==
    \E p \in Procs :
        /\ pc[p] = "thrown"
        /\ config.retryAttempts = MaxRetryAttempts
        /\ Len(raised[p]) = MaxRetryAttempts + 1
        /\ \A i \in 1 .. Len(raised[p]) : raised[p][i].severity = "critical"

\* C2, in every state: a call that returned from executeWithRetry after k
\* failed invocations invoked the operation k + 1 times, slept k times
\* (k <= maxRetries) and returned the value the operation resolved to.
C2_Returned ==
    \A p \in Procs :
        (pc[p] = "returned" /\ startTime[p] # <<>>) =>
            /\ Len(raised[p]) <= config.retryAttempts
            /\ invocations[p] = Len(raised[p]) + 1
            /\ Len(sleeps[p]) = Len(raised[p])
            /\ outcome[p].kind = "value"
            /\ outcome[p].value = outcome[p].resolved

\* C2, in every step: one sleep lies between consecutive invocations, and
\* after the success the call neither invokes the operation nor sleeps.
C2_Step ==
    \A p \in Procs :
        /\ invocations'[p] > invocations[p] /\ invocations[p] > 0
              => pc[p] = "sleeping" /\ Len(sleeps[p]) = invocations[p]
        /\ pc[p] = "returned" =>
              \/ pc'[p] = "idle"
              \/ /\ pc'[p] = "returned"
                 /\ invocations'[p] = invocations[p]
                 /\ sleeps'[p] = sleeps[p]

\* C2: an operation that fails k times (k <= maxRetries) and then succeeds
\* makes executeWithRetry return the success value after k + 1 invocations
\* and k sleeps, one between each pair of attempts, and nothing afterwards.
C2_RetrySuccess == [][C2_Returned' /\ C2_Step]_vars

\* C2 witness: a call returned on its last permitted attempt.
C2_Witness ==
    \E p \in Procs :
        /\ pc[p] = "returned"
        /\ config.retryAttempts = MaxRetryAttempts
        /\ Len(raised[p]) = MaxRetryAttempts
        /\ Len(sleeps[p]) = MaxRetryAttempts

\* C3: the sleep after failed attempt a is min(1000 * 2^a, retryDelay); no
\* sleep exceeds retryDelay, the sleeps of a call do not decrease, and they
\* sum to at most maxRetries * retryDelay.
C3_BackoffDelays ==
    \A p \in Procs :
        /\ Len(sleeps[p]) <= config.retryAttempts
        /\ \A i \in 1 .. Len(sleeps[p]) :
              /\ \/ ( /\ sleeps[p][i] = 1000 * Pow2(i - 1)
                      /\ 1000 * Pow2(i - 1) <= config.retryDelay )
                 \/ ( /\ sleeps[p][i] = config.retryDelay
                      /\ config.retryDelay <= 1000 * Pow2(i - 1) )
              /\ sleeps[p][i] <= config.retryDelay
              /\ i > 1 => sleeps[p][i - 1] <= sleeps[p][i]
        /\ SumSeq(sleeps[p]) <= config.retryAttempts * config.retryDelay

\* C3 witness: a call slept twice, the second sleep capped by retryDelay.
C3_Witness ==
    \E p \in Procs :
        /\ config.retryDelay = DefaultRetryDelay
        /\ sleeps[p] = <<1000, 1000>>

\* C4 as claimed: with an operation that always throws Error("ECONNREFUSED")
\* and maxRetries = 2, the two backoff sleeps total at least 1000 + 2000 ms
\* under every accepted configuration.
C4_SleepsAtLeast3000 ==
    \A p \in Procs :
        ( /\ pc[p] = "thrown"
          /\ config.retryAttempts = 2
          /\ \A i \in 1 .. Len(raised[p]) : raised[p][i] = EconnRefused )
        => SumSeq(sleeps[p]) >= 1000 + 2000

\* C10 as claimed: every error executeWithRetry throws is a DomainError.
C10_ThrowsDomainError ==
    \A p \in Procs :
        pc[p] = "thrown" =>
            \A i \in 1 .. Len(outcome[p].error) : outcome[p].error[i].domain

-----------------------------------------------------------------------------
(* Claims on executeWithCache (ReadSpec) *)

\* p's step is the synchronous start of the cached read c
StartsRead(p, c) == pc[p] = "idle" /\ pc'[p] # "idle" /\ call'[p] = c

\* the cache holds an entry under key that has not expired
Fresh(key) ==
    /\ key \in DOMAIN cache
    /\ now - cache[key].timestamp <= cache[key].ttl

\* C5 as claimed: a cached read that starts while its key holds an
\* unexpired entry stored by an earlier call returns that entry's value
\* without invoking the operation, whatever the value is.
C5_SecondCallServedFromCache ==
    [][ \A p \in Procs, c \in CachedReads :
          (StartsRead(p, c) /\ Fresh(cacheKey(c))) =>
              /\ pc'[p] = "returned"
              /\ invocations'[p] = 0
              /\ outcome'[p].value = cache[cacheKey(c)].data ]_vars

\* C6: a cache hit returns the stored value without invoking the operation,
\* without sleeping and without a PerformanceMonitor timer; the monitor's
\* aggregates and the cache contents are unchanged.
C6_HitFrame ==
    [][ \A p \in Procs, c \in CachedReads :
          ( /\ StartsRead(p, c)
            /\ Fresh(cacheKey(c))
            /\ cache[cacheKey(c)].data # JSNull ) =>
              /\ pc'[p] = "returned"
              /\ outcome'[p].kind = "value"
              /\ outcome'[p].value = cache[cacheKey(c)].data
              /\ invocations'[p] = 0
              /\ sleeps'[p] = <<>>
              /\ startTime'[p] = <<>>
              /\ operations' = operations
              /\ cache' = cache ]_vars

\* C6 witness: a read was served from an entry stored 1000 ms earlier, with
\* a sample of the earlier call in the monitor.
C6_Witness ==
    \E p \in Procs :
        /\ pc[p] = "returned"
        /\ call[p] \in CachedReads
        /\ invocations[p] = 0
        /\ cacheKey(call[p]) \in DOMAIN cache
        /\ cache[cacheKey(call[p])].timestamp < now
        /\ outcome[p].value = cache[cacheKey(call[p])].data
        /\ call[p].m \in DOMAIN operations

\* C7, in every step of a cached read that does not return a value: the
\* cache is left as it was, but for the eviction of the read's own expired
\* entry by the lookup.
C7_Step ==
    \A p \in Procs :
        ( /\ pc'[p] # pc[p]
          /\ pc'[p] \in {"awaitOp", "sleeping", "thrown"}
          /\ call'[p] \in CachedReads ) =>
            \/ cache' = cache
            \/ /\ pc[p] = "idle"
               /\ cacheKey(call'[p]) \in DOMAIN cache
               /\ now - cache[cacheKey(call'[p])].timestamp
                     > cache[cacheKey(call'[p])].ttl
               /\ cache' = without(cache, {cacheKey(call'[p])})

\* C7, in every state: the failed read threw the normalized error of its
\* last attempt.
C7_Thrown ==
    \A p \in Procs :
        (pc[p] = "thrown" /\ call[p] \in CachedReads) =>
            /\ outcome[p].kind = "error"
            /\ outcome[p].error = <<normalizeError(Last(raised[p]))>>
            /\ outcome[p].error = lastError[p]

\* C7: when executeWithCache misses and executeWithRetry exhausts its
\* attempts, the error is propagated and nothing is written under the key;
\* apart from the lazy eviction of the key's expired entry the cache holds
\* the entries it held before.
C7_NothingCachedOnFailure == [][C7_Thrown' /\ C7_Step]_vars

\* C7 witness: a read failed after a retry; the entry its key held from an
\* earlier call had expired and was evicted by the lookup.
C7_Witness ==
    \E p \in Procs :
        /\ pc[p] = "thrown"
        /\ call[p] \in CachedReads
        /\ Len(raised[p]) = 2
        /\ ticks > 0
        /\ cleanups = 0
        /\ call[p].m \in DOMAIN operations
        /\ operations[call[p].m].count = 2
        /\ cacheKey(call[p]) \notin DOMAIN cache

-----------------------------------------------------------------------------
(* Claims on cache invalidation by mutations (Spec) *)

\* p's step is the successful return of the mutation it was awaiting
ReturnsFrom(p, mutations) ==
    pc[p] = "awaitOp" /\ pc'[p] = "returned" /\ call[p] \in mutations

\* C8, the return of createDeck / deleteDeck: no key starting with "deck"
\* is left, and the entries of all other keys are as they were.
C8_Invalidates ==
    \A p \in Procs :
        ReturnsFrom(p, DeckMutations) =>
            /\ \A k \in DOMAIN cache' : Head(k) # "deck"
            /\ \A k \in DOMAIN cache :
                  Head(k) # "deck" => k \in DOMAIN cache' /\ cache'[k] = cache[k]
            /\ DOMAIN cache' \subseteq DOMAIN cache

\* C8, the next getDeckNames call after that return invokes the transport.
C8_NextReadRefetches ==
    \A p \in Procs :
        ( /\ StartsRead(p, [m |-> "getDeckNames", arg |-> "-"])
          /\ <<DeckNamesKey, "deck">> \in refetch ) =>
            /\ pc'[p] = "awaitOp"
            /\ invocations'[p] = 1

\* C8: once createDeck or deleteDeck has returned successfully the cache
\* holds no key starting with "deck", the next getDeckNames call invokes the
\* transport again, and entries under other prefixes are unchanged.
C8_DeckMutationInvalidates == [][C8_Invalidates /\ C8_NextReadRefetches]_vars

\* C8 witness: a deck mutation has returned, its invalidation removed
\* cached deck entries and the modelNames entry is still held.
C8_Witness ==
    \E p \in Procs :
        /\ pc[p] = "returned"
        /\ call[p] \in DeckMutations
        /\ outcome[p].invalidated # {}
        /\ ModelNamesKey \in DOMAIN cache
        /\ \A k \in DOMAIN cache : Head(k) # "deck"

\* C9 as claimed: after a note mutation on a deck has returned successfully,
\* the next getDeckStats call for that deck is not served from the cache.
C9_NoStaleDeckStats ==
    [][ \A p \in Procs, c \in CachedReads :
          ( /\ StartsRead(p, c)
            /\ c.m = "getDeckStats"
            /\ <<cacheKey(c), "note">> \in refetch ) =>
              /\ pc'[p] = "awaitOp"
              /\ invocations'[p] = 1 ]_vars

-----------------------------------------------------------------------------
(* Claims on the public methods' error conversion (RetrySpec) *)

ErrorCodes == {"InternalError", "InvalidParams", "InvalidRequest"}

\* C11, in every state: a public method that failed throws an McpError
\* built from the normalized form of the error executeWithRetry threw; the
\* utils.ts client throws an McpError too.
C11_Thrown ==
    \A p \in Procs :
        pc[p] = "thrown" =>
            /\ outcome[p].kind = "error"
            /\ Len(outcome[p].thrown) = 1
            /\ outcome[p].thrown[1].cls = "McpError"
            /\ outcome[p].thrown[1].code \in ErrorCodes
            /\ outcome[p].thrown[1].message
                  = normalizeError(outcome[p].error[1]).message
            /\ Len(outcome[p].wrapped) = 1
            /\ outcome[p].wrapped[1].cls = "McpError"
            /\ outcome[p].value = JSUndefined
            /\ outcome[p].ret = JSUndefined

\* C11, in every step: a call returns normally only in a step in which its
\* operation resolved (or the cache answered), never in one in which an
\* invocation failed; a call whose last permitted invocation fails throws.
C11_Step ==
    \A p \in Procs :
        /\ (pc'[p] = "returned" /\ pc[p] # "returned") =>
              /\ pc[p] \in {"idle", "awaitOp"}
              /\ raised'[p] = IF pc[p] = "idle" THEN <<>> ELSE raised[p]
              /\ outcome'[p].kind = "value"
              /\ outcome'[p].thrown = <<>>
        /\ ( /\ pc[p] = "awaitOp"
             /\ Len(raised'[p]) > Len(raised[p])
             /\ Len(raised'[p]) = config.retryAttempts + 1 ) =>
              pc'[p] = "thrown"

C16_McpErrorCarriesCode ==
    \A p \in Procs :
        (pc[p] = "thrown" /\ outcome[p].error[1].domain) =>
            /\ outcome[p].thrown[1].message = outcome[p].error[1].message
            /\ outcome[p].thrown[1].data = <<outcome[p].error[1].code>>

\* C18 as claimed: when the transport rejects with Error("ECONNREFUSED"),
\* checkConnection of the utils.ts client rejects with an instance of
\* AnkiConnectionError.
C18_RejectsWithConnectionError ==
    \A p \in Procs :
        ( /\ pc[p] = "thrown"
          /\ call[p] = CheckConnection
          /\ \A i \in 1 .. Len(raised[p]) : raised[p][i] = EconnRefused ) =>
            outcome[p].wrapped[1].cls = "AnkiConnectionError"

-----------------------------------------------------------------------------
(* Claims on the error functions (ErrorSpec) *)

Normalized == ret.op = "normalizeError"

\* C12: normalizeError classifies an Error by its message, ECONNREFUSED
\* before timeout / ETIMEDOUT before collection unavailable, with the class,
\* category and severity of the first match and the original error as cause.
C12_ClassifiesInOrder ==
    (Normalized /\ ret.arg.isError) =>
        /\ includes(ret.arg.message, "ECONNREFUSED") =>
              /\ ret.value.cls = "AnkiConnectionError"
              /\ ret.value.domain
              /\ ret.value.code = "ANKI_CONNECTION_ERROR"
              /\ ret.value.category = "connection"
              /\ ret.value.severity = "high"
              /\ ret.value.cause = CauseOf(ret.arg)
        /\ ( /\ ~includes(ret.arg.message, "ECONNREFUSED")
             /\ \/ includes(ret.arg.message, "timeout")
                \/ includes(ret.arg.message, "ETIMEDOUT") ) =>
              /\ ret.value.cls = "AnkiTimeoutError"
              /\ ret.value.domain
              /\ ret.value.category = "connection"
              /\ ret.value.severity = "medium"
              /\ ret.value.cause = CauseOf(ret.arg)
        /\ ( /\ ~includes(ret.arg.message, "ECONNREFUSED")
             /\ ~includes(ret.arg.message, "timeout")
             /\ ~includes(ret.arg.message, "ETIMEDOUT")
             /\ includes(ret.arg.message, "collection unavailable") ) =>
              /\ ret.value.cls = "AnkiApiError"
              /\ ret.value.domain
              /\ ret.value.category = "infrastructure"
              /\ ret.value.severity = "medium"
              /\ ret.value.cause = CauseOf(ret.arg)
        /\ ret.arg = PlainError(<<"connection", "timeout">>) =>
              ret.value.cls = "AnkiTimeoutError"

\* C12 witness: an Error whose message matches all three patterns was
\* normalized to an AnkiConnectionError.
C12_Witness ==
    /\ Normalized
    /\ ret.arg = PlainError(<<"ECONNREFUSED", "ETIMEDOUT", "collection unavailable">>)
    /\ ret.value.cls = "AnkiConnectionError"

\* C13 as claimed: normalizeError returns every DomainError unchanged, and
\* normalizing what normalizeError returned changes nothing.
C13_Idempotent ==
    [][ /\ (Normalized' /\ ret'.arg.domain) => ret'.value = ret'.arg
        /\ (Normalized /\ Normalized' /\ ret'.arg = ret.value) =>
              ret'.value = ret.value ]_vars

\* C14 as claimed: a thrown value that is not an Error is classified by the
\* message rules: ECONNREFUSED gives an AnkiConnectionError, timeout an
\* AnkiTimeoutError.
C14_NonErrorClassified ==
    (Normalized /\ ~ret.arg.isError) =>
        /\ ret.value.isError
        /\ includes(ret.arg.message, "ECONNREFUSED") =>
              ret.value.cls = "AnkiConnectionError"
        /\ ( /\ ~includes(ret.arg.message, "ECONNREFUSED")
             /\ includes(ret.arg.message, "timeout") ) =>
              ret.value.cls = "AnkiTimeoutError"

C17_Recoverable ==
    [][ (ret' # ret /\ ret'.op = "isRecoverable") =>
          /\ ret'.value =
                IF ~ret'.arg.domain THEN JSFalse
                ELSE IF ret'.arg.severity = "critical" THEN JSFalse
                ELSE IF ret'.arg.category \in {"connection", "validation"}
                     THEN JSTrue
                ELSE JSFalse
          /\ UNCHANGED clientVars ]_vars

\* C17 witness: a CRITICAL error of category CONNECTION was found not
\* recoverable.
C17_Witness ==
    /\ ret.op = "isRecoverable"
    /\ ret.arg.domain
    /\ ret.arg.severity = "critical"
    /\ ret.arg.category = "connection"
    /\ ret.value = JSFalse

-----------------------------------------------------------------------------
(* Claims on CacheManager (CacheSpec) *)

\* C19, set: the entry stored carries the value, the time of the call and
\* the ttl.
C19_Set ==
    \A k \in CacheKeys, v \in CacheValues, ttl \in CacheTtls :
        CacheSet(k, v, ttl) =>
            /\ k \in DOMAIN cache'
            /\ cache'[k].data = v
            /\ cache'[k].timestamp = now
            /\ cache'[k].ttl = ttl

\* C19, get of a held entry: up to and including timestamp + ttl the value
\* is returned and the entry kept; later null is returned and the entry is
\* removed, so that getStats().totalEntries is one lower.
C19_Get ==
    \A k \in CacheKeys :
        (CacheGet(k) /\ k \in DOMAIN cache) =>
            /\ cache[k].timestamp <= now
            /\ now <= cache[k].timestamp + cache[k].ttl =>
                  /\ ret'.value = cache[k].data
                  /\ cache' = cache
            /\ now > cache[k].timestamp + cache[k].ttl =>
                  /\ ret'.value = JSNull
                  /\ k \notin DOMAIN cache'
                  /\ \A j \in DOMAIN cache :
                        j # k => j \in DOMAIN cache' /\ cache'[j] = cache[j]
                  /\ getStats(cache', now').totalEntries
                        = getStats(cache, now).totalEntries - 1

\* C19: an entry stored by set(key, v, T) at t0 is returned by get at every
\* time in [t0, t0 + T] and null is returned at every later time; the first
\* late get removes the entry and totalEntries drops by one.
C19_TtlExpiry == [][C19_Set /\ C19_Get]_vars

\* C19 witness: a get after the ttl returned null and evicted the entry,
\* while an entry at exactly timestamp + ttl is still held.
C19_Witness ==
    /\ ret.op = "get"
    /\ ret.value = JSNull
    /\ ret.arg \notin DOMAIN cache
    /\ ret.size = Cardinality(DOMAIN cache) + 1
    /\ \E k \in DOMAIN cache :
          /\ now = cache[k].timestamp + cache[k].ttl
          /\ get(cache, k, now) = cache[k].data

\* C20: after deleteByPrefix(p) get returns null for every key starting
\* with p, and every entry whose key does not start with p is still held
\* with the same data, timestamp and ttl.
C20_DeleteByPrefixFrame ==
    [][ \A pre \in CachePrefixes :
          CacheDeleteByPrefix(pre) =>
              \A k \in CacheKeys :
                  IF Len(pre) <= Len(k) /\ SubSeq(k, 1, Len(pre)) = pre
                  THEN /\ k \notin DOMAIN cache'
                       /\ get(cache', k, now') = JSNull
                  ELSE /\ (k \in DOMAIN cache') = (k \in DOMAIN cache)
                       /\ k \in DOMAIN cache =>
                             /\ cache'[k].data = cache[k].data
                             /\ cache'[k].timestamp = cache[k].timestamp
                             /\ cache'[k].ttl = cache[k].ttl ]_vars

\* C20 witness: with deck:a, deck:b and model:c held, deleteByPrefix("deck")
\* left model:c alone, which is still retrievable.
C20_Witness ==
    /\ ret.op = "deleteByPrefix"
    /\ ret.arg = <<"deck">>
    /\ ret.size = 3
    /\ DOMAIN cache = { <<"model", ":", "c">> }
    /\ get(cache, <<"model", ":", "c">>, now) # JSNull

\* C21, with a ttl: set replaces the key's entry by the value, the time of
\* the call and the ttl, whatever the key held before, and leaves every
\* other entry alone.
C21_Set ==
    \A k \in CacheKeys, v \in CacheValues, ttl \in CacheTtls :
        CacheSet(k, v, ttl) =>
            /\ DOMAIN cache' = (DOMAIN cache) \cup {k}
            /\ cache'[k] = [data |-> v, timestamp |-> now, ttl |-> ttl]
            /\ cache'[k].timestamp + cache'[k].ttl = now + ttl
            /\ get(cache', k, now') = v
            /\ \A j \in DOMAIN cache : j # k => cache'[j] = cache[j]

\* C21, with the ttl omitted: the same with a ttl of 5 minutes.
C21_SetDefault ==
    \A k \in CacheKeys, v \in CacheValues :
        CacheSetDefault(k, v) =>
            /\ DOMAIN cache' = (DOMAIN cache) \cup {k}
            /\ cache'[k] = [data |-> v, timestamp |-> now, ttl |-> 5 * 60 * 1000]
            /\ \A j \in DOMAIN cache : j # k => cache'[j] = cache[j]

\* C21: set(key, v, ttl) replaces the key's entry with {v, now, ttl}, so
\* the expiry window restarts at the latest set; other keys' entries are
\* unchanged, and an omitted ttl is 5 minutes.
C21_SetOverwrites == [][C21_Set /\ C21_SetDefault]_vars

\* C21 witness: a key that was held was set again after the clock moved;
\* its entry carries the time of the second set, next to another entry.
C21_Witness ==
    /\ ret.op = "set"
    /\ ret.size = 2
    /\ Cardinality(DOMAIN cache) = 2
    /\ now > 0
    /\ cache[ret.arg].timestamp = now
    /\ \E j \in DOMAIN cache : cache[j].timestamp < now

\* C22: cleanup at time now removes exactly the entries with
\* now - timestamp > ttl and leaves the others unchanged; afterwards
\* getStats reports no expired entry and as many entries as were unexpired.
C22_CleanupRemovesExpired ==
    [][ CacheCleanup =>
          /\ DOMAIN cache' =
                {k \in DOMAIN cache : ~(now - cache[k].timestamp > cache[k].ttl)}
          /\ \A k \in DOMAIN cache' : cache'[k] = cache[k]
          /\ getStats(cache', now').expiredEntries = 0
          /\ getStats(cache', now').totalEntries =
                Cardinality({k \in DOMAIN cache :
                                now - cache[k].timestamp <= cache[k].ttl}) ]_vars

\* C22 witness: cleanup removed an expired entry and kept one that was
\* exactly ttl old.
C22_Witness ==
    /\ ret.op = "cleanup"
    /\ ret.size > Cardinality(DOMAIN cache)
    /\ \E k \in DOMAIN cache : now - cache[k].timestamp = cache[k].ttl

-----------------------------------------------------------------------------
(* Claims on the periodic cleanup (TimerSpec) *)

\* the entry under k has expired
Stale(k) ==
    k \in DOMAIN cache /\ now - cache[k].timestamp > cache[k].ttl

\* C23: while the timer keeps firing, an expired entry that is not read
\* again is eventually removed by the periodic cleanup, and no entry outlives
\* a firing of the timer that came after its expiry.
C23_ExpiredEventuallyRemoved ==
    /\ \A k \in CacheKeys : Stale(k) ~> ~Stale(k)
    /\ [](\A k \in DOMAIN cache :
             cleanups * CleanupInterval <= cache[k].timestamp + cache[k].ttl)

\* C23 witness: the last direct call stored an entry, nothing read or
\* deleted it, and after the timer fired it is gone.
C23_Witness ==
    /\ ret.op = "set"
    /\ ret.arg \notin DOMAIN cache
    /\ cleanups = 1
    /\ now = CleanupInterval

-----------------------------------------------------------------------------
(* Claims on the performance samples of executeWithRetry (ReadSpec) *)

\* executeWithRetry of p returns or throws in this step
ExitsRetry(p) ==
    pc[p] \in {"awaitOp", "sleeping"} /\ pc'[p] \in {"returned", "thrown"}

CountOf(ops, n) == IF n \in DOMAIN ops THEN ops[n].count ELSE 0

TotalOf(ops, n) == IF n \in DOMAIN ops THEN ops[n].totalTime ELSE 0

\* C24: a step in which executeWithRetry exits, with a value or with an
\* error, adds exactly one sample under the call's operationName, whose
\* duration is the time since the call started and so covers every backoff
\* sleep of the call; the aggregates of other names stay as they are, and no
\* other step (a cache hit included) records anything.
C24_OneSamplePerCall ==
    [][ /\ \A p \in Procs :
             ExitsRetry(p) =>
                LET n == operationName(call[p])
                    d == now' - startTime[p][1]
                IN  /\ CountOf(operations', n) = CountOf(operations, n) + 1
                    /\ TotalOf(operations', n) = TotalOf(operations, n) + d
                    /\ d >= SumSeq(sleeps[p])
                    /\ DOMAIN operations' = (DOMAIN operations) \cup {n}
                    /\ \A m \in (DOMAIN operations) \ {n} :
                          operations'[m] = operations[m]
        /\ (~ \E p \in Procs : ExitsRetry(p)) => operations' = operations
      ]_vars

\* C24 witness: the second call under a name has failed after a backoff
\* sleep, and the name's aggregate counts both calls.
C24_Witness ==
    \E p \in Procs :
        /\ pc[p] = "thrown"
        /\ Len(sleeps[p]) >= 1
        /\ operationName(call[p]) \in DOMAIN operations
        /\ operations[operationName(call[p])].count = 2
        /\ operations[operationName(call[p])].totalTime >= SumSeq(sleeps[p])
        /\ SumSeq(sleeps[p]) > 0

-----------------------------------------------------------------------------
(* Claims on the performance monitor (MonitorSpec) *)

\* the aggregate agg is consistent: its average is its total over its count
\* and lies between its minimum and its maximum
Consistent(agg) ==
    /\ agg.count >= 1
    /\ agg.avgTime.den > 0
    /\ agg.avgTime.num * agg.count = agg.totalTime * agg.avgTime.den
    /\ agg.minTime * agg.avgTime.den <= agg.avgTime.num
    /\ agg.avgTime.num <= agg.maxTime * agg.avgTime.den
    /\ agg.minTime <= agg.maxTime

\* the stop closure of p folds the duration d into the aggregate of name n
Folds(n, d) ==
    /\ DOMAIN operations' = (DOMAIN operations) \cup {n}
    /\ IF n \in DOMAIN operations
       THEN /\ operations'[n].count = operations[n].count + 1
            /\ operations'[n].totalTime = operations[n].totalTime + d
            /\ operations'[n].maxTime = Max(operations[n].maxTime, d)
            /\ operations'[n].minTime = Min(operations[n].minTime, d)
       ELSE /\ operations'[n].count = 1
            /\ operations'[n].totalTime = d
            /\ operations'[n].maxTime = d
            /\ operations'[n].minTime = d
    /\ \A m \in (DOMAIN operations) \ {n} : operations'[m] = operations[m]

\* C25: each stop-closure call adds its duration to the aggregate of its
\* name (count + 1, totalTime + d, maxTime and minTime the running maximum
\* and minimum, starting from the single sample after a reset) and leaves
\* the aggregates of other names unchanged; every aggregate has
\* avgTime = totalTime / count and minTime <= avgTime <= maxTime; and reset()
\* removes all aggregates.
C25_Aggregates ==
    [][ /\ \A p \in Procs :
             MonitorStop(p) => Folds(call[p].m, now - startTime[p][1])
        /\ \A n \in DOMAIN operations' : Consistent(operations'[n])
        /\ MonitorReset => DOMAIN operations' = {}
      ]_vars

\* C25 witness: a stop-closure call has just made a name's second sample,
\* of a different duration than the first, while another name holds an
\* aggregate of many samples.
C25_Witness ==
    /\ ret.op = "stopTimer"
    /\ \E n \in DOMAIN operations, m \in DOMAIN operations :
          /\ n = ret.arg[1]
          /\ m # n
          /\ operations[n].count = 2
          /\ operations[n].minTime < operations[n].maxTime
          /\ operations[n].totalTime
                = operations[n].minTime + operations[n].maxTime
          /\ operations[m].count = FrequentThreshold

\* the suggestion list s has a message of kind msg
Has(s, msg) == \E i \in 1..Len(s) : s[i].msg = msg

\* C26: getOptimizationSuggestions reports a slow-operation suggestion iff
\* some operation has avgTime > 1000, a cache-candidate suggestion iff some
\* operation has count > 50, an instability suggestion iff some operation
\* has maxTime > 3 * avgTime and count >= 5, the single performance-is-good
\* message when none of these holds, and leaves the aggregates unchanged.
C26_SuggestionsFollowAggregates ==
    [][ MonitorGetOptimizationSuggestions =>
          LET s == ret'.value.v
              slow == \E n \in DOMAIN operations :
                         operations[n].avgTime.num
                            > 1000 * operations[n].avgTime.den
              frequent == \E n \in DOMAIN operations :
                             operations[n].count > 50
              unstable == \E n \in DOMAIN operations :
                             /\ operations[n].maxTime
                                   * operations[n].avgTime.den
                                   > 3 * operations[n].avgTime.num
                             /\ operations[n].count >= 5
          IN  /\ Has(s, "slow") <=> slow
              /\ Has(s, "frequent") <=> frequent
              /\ Has(s, "unstable") <=> unstable
              /\ ~(slow \/ frequent \/ unstable) => s = << PerformanceIsGood >>
              /\ operations' = operations
      ]_vars

-----------------------------------------------------------------------------
(* Claims on AnkiConfig (ConfigSpec, EnvRetrySpec) *)

Builders == { "new AnkiConfig", "fromEnvironment", "fromObject", "withOverrides" }

\* the instance c holds a parseable url, numbers within their ranges and a
\* non-blank default deck
InRange(c) ==
    /\ parseable(c.url)
    /\ c.timeout \in TimeoutMin .. TimeoutMax
    /\ c.retryAttempts \in RetryAttemptsMin .. RetryAttemptsMax
    /\ c.retryDelay \in RetryDelayMin .. RetryDelayMax
    /\ ~ blank(c.defaultDeck)

\* C27: every way of building an AnkiConfig throws a ConfigurationError or
\* yields an instance with a parseable url, timeout in [1000, 60000],
\* retryAttempts in [0, 10], retryDelay in [100, 10000] and a non-blank
\* defaultDeck; the instance the program goes on with is such an instance.
C27_BuildersValidate ==
    /\ ret.op \in Builders =>
          \/ ret.value.t = "throw" /\ ret.value.v.cls = "ConfigurationError"
          \/ ret.value.t = "AnkiConfig" /\ InRange(ret.value.v)
    /\ InRange(config)

\* C28: a call that throws has invoked its operation at least once, and
\* what it throws is not the fallback "Unknown error occurred".
C28_OperationInvoked ==
    \A p \in Procs :
        pc[p] = "thrown" =>
            /\ invocations[p] >= 1
            /\ raised[p] # << >>
            /\ outcome[p].error # << UnknownError >>

\* C29: withOverrides(o) leaves the receiver as it was, and either throws a
\* ConfigurationError or returns an instance that passed validate() and
\* whose fields are o's where o supplies them and the receiver's otherwise.
C29_WithOverrides ==
    [][ (ret' # ret /\ ret'.op = "withOverrides") =>
           /\ config' = config
           /\ \/ /\ ret'.value.t = "throw"
                 /\ ret'.value.v.cls = "ConfigurationError"
              \/ /\ ret'.value.t = "AnkiConfig"
                 /\ validationErrors(ret'.value.v) = << >>
                 /\ \A f \in ConfigFields :
                       ret'.value.v[f] =
                          IF ret'.arg[f] # << >> THEN ret'.arg[f][1]
                          ELSE config[f]
      ]_vars

\* C29 witness: withOverrides({retryAttempts: 0}) on a receiver with three
\* retry attempts returned an instance with none and the receiver's other
\* fields.
C29_Witness ==
    /\ ret.op = "withOverrides"
    /\ ret.arg.retryAttempts = << 0 >>
    /\ ret.arg.timeout = << >>
    /\ ret.value.t = "AnkiConfig"
    /\ config.retryAttempts = DefaultRetryAttempts
    /\ ret.value.v.retryAttempts = 0
    /\ ret.value.v.timeout = config.timeout

-----------------------------------------------------------------------------
(* Claims on ConfigLoader (LoaderSpec) *)

\* load() is called in this step
LoadStep == \E others \in OtherSections : LoaderLoad(others)

\* C30: load() on a loader without a configuration builds one from the
\* environment and keeps it; load() on a loader that holds one returns that
\* very object and builds nothing, whatever the environment has become; the
\* object held is only replaced by reset() or loadWithOverrides(); and
\* getInstance() returns the one loader, which is never replaced.
C30_LoadOnce ==
    [][ /\ (LoadStep /\ loader.config # << >>) =>
              /\ ret'.value = Loaded(loader.config[1])
              /\ loader' = loader
              /\ built' = built
        /\ (LoadStep /\ loader.config = << >> /\ ret'.value.t # "throw") =>
              /\ ret'.value.v.id = built + 1
              /\ ret'.value.v.anki = fromEnvironment(env).v
              /\ loader'.config = << ret'.value.v >>
              /\ built' = built + 1
        /\ (loader.config # << >> /\ loader'.config # loader.config) =>
              ret'.op \in {"reset", "loadWithOverrides"}
        /\ LoaderGetInstance =>
              /\ ret'.value.v = loader'.instance
              /\ loader'.instance # << >>
        /\ loader.instance # << >> => loader'.instance = loader.instance
      ]_vars

\* C30 witness: the second load() returned the object the first one built,
\* under an environment from which a different configuration (or none)
\* would be built.
C30_Witness ==
    /\ ret.op = "load"
    /\ calls = 2
    /\ built = 1
    /\ ret.value.t = "ApplicationConfig"
    /\ ret.value.v.id = 1
    /\ loader.config = << ret.value.v >>
    /\ fromEnvironment(ret.arg) # Built(ret.value.v.anki)


\* C31: getConfig() and getAnkiConfig() throw a ConfigurationError exactly
\* when the loader holds no configuration, and otherwise return the one it
\* holds (its anki section); the loader holds none before the first
\* successful load and after every reset(), and a load() that throws leaves
\* it without one.
C31_GetConfig ==
    [][ /\ LoaderGetConfig =>
              /\ loader' = loader
              /\ ret'.value.t = "throw" <=> loader.config = << >>
              /\ ret'.value.t = "throw" =>
                    ret'.value.v.cls = "ConfigurationError"
              /\ ret'.value.t # "throw" =>
                    ret'.value = Loaded(loader.config[1])
        /\ LoaderGetAnkiConfig =>
              /\ loader' = loader
              /\ ret'.value.t = "throw" <=> loader.config = << >>
              /\ ret'.value.t = "throw" =>
                    ret'.value.v.cls = "ConfigurationError"
              /\ ret'.value.t # "throw" =>
                    ret'.value = Built(loader.config[1].anki)
        /\ built' = 0 => loader'.config = << >>
        /\ LoaderReset => loader'.config = << >>
        /\ (LoadStep /\ ret'.value.t = "throw") => loader'.config = << >>
      ]_vars

\* C31 witness: getConfig() threw on a loader that had been loaded and then
\* reset.
C31_Witness ==
    /\ ret.op = "getConfig"
    /\ ret.value.t = "throw"
    /\ ret.value.v.cls = "ConfigurationError"
    /\ built = 1
    /\ loader.config = << >>


\* loadWithOverrides(o) is called in this step
LoadWithOverridesStep(o) ==
    \E others \in OtherSections : LoaderLoadWithOverrides(others, o)

\* the anki section of the base configuration: the one held, or the one
\* load() builds from the environment
BaseAnki ==
    IF loader.config # << >> THEN loader.config[1].anki
    ELSE fromEnvironment(env).v

\* C32: loadWithOverrides(o) that returns keeps the base configuration's
\* anki section when o has none, and otherwise returns a section whose
\* fields are o's where o specifies them and the base configuration's
\* elsewhere; the result is the configuration the loader holds afterwards.
C32_OverridesOnBase ==
    [][ \A o \in LoaderOverrides :
          (LoadWithOverridesStep(o) /\ ret'.value.t # "throw") =>
             /\ loader'.config = << ret'.value.v >>
             /\ o.anki = << >> => ret'.value.v.anki = BaseAnki
             /\ o.anki # << >> =>
                   \A f \in ConfigFields :
                      ret'.value.v.anki[f] =
                         IF o.anki[1][f] # << >> THEN o.anki[1][f][1]
                         ELSE BaseAnki[f]
      ]_vars

\* C33: when processBatch has returned, every batch was handed to the
\* processor exactly once; if no processor call failed the returned list
\* holds the results of every batch exactly once; and no completed count
\* reported to onProgress exceeded items.length.
C33_EachBatchOnce ==
    batch.phase = "returned" /\ "batches" \in DOMAIN batch =>
        /\ \A k \in DOMAIN batch.batches :
              Cardinality({ j \in DOMAIN batch.handed :
                              batch.handed[j] = batch.batches[k] }) = 1
        /\ ~batch.failed =>
              /\ Len(ret.value.v) = Len(batch.items)
              /\ \A x \in DOMAIN batch.items :
                    \E j \in DOMAIN ret.value.v :
                        ret.value.v[j] = batch.items[x]
        /\ \A j \in DOMAIN batch.progress :
              batch.progress[j] <= Len(batch.items)

C35_NoStaleRepopulation ==
    \A p \in Procs :
        ( /\ pc[p] = "returned"
          /\ call[p].m = "createDeck"
          /\ DeckNamesKey \in DOMAIN cache )
        => \E i \in DOMAIN cache[DeckNamesKey].data.v :
               cache[DeckNamesKey].data.v[i] = call[p].arg

\* C36: a cached read that starts while another call chain is awaiting
\* the operation of the same read invokes no operation of its own.
C36_SingleFlight ==
    [][ \A p \in Procs, q \in Procs :
          ( /\ p # q
            /\ pc[p] = "awaitOp"
            /\ call[p] \in CachedReads
            /\ pc[q] = "idle" /\ pc'[q] # "idle"
            /\ call'[q] = call[p] )
          => invocations'[q] = 0 ]_vars

\* C37: a getModelNames that starts after a createModel has returned
\* successfully, and a getModelTemplates(M) that starts after an
\* updateModelTemplates(M) has returned successfully, with no such read
\* started in between, invokes the transport.
C37_ModelReadsRefetch ==
    [][ \A p \in Procs :
          ( /\ pc[p] = "idle" /\ pc'[p] # "idle"
            /\ call'[p].m \in {"getModelNames", "getModelTemplates"}
            /\ << cacheKey(call'[p]), "model" >> \in refetch )
          => pc'[p] = "awaitOp" /\ invocations'[p] = 1 ]_vars

\* C38: a call of executeWithRetry whose invocations all settle ends, by
\* returning or throwing; it invokes the operation at most maxRetries + 1
\* times and sleeps at most maxRetries times, each sleep no longer than
\* retryDelay; and while it awaits an invocation the passing of time does
\* not end it.
C38_RetryTerminates ==
    /\ \A p \in Procs :
          (pc[p] \in {"awaitOp", "sleeping"})
              ~> (pc[p] \in {"returned", "thrown"})
    /\ [](\A p \in Procs :
            /\ invocations[p] <= config.retryAttempts + 1
            /\ Len(sleeps[p]) <= Max(config.retryAttempts, 0)
            /\ \A i \in DOMAIN sleeps[p] : sleeps[p][i] <= config.retryDelay)
    /\ [][ \A p \in Procs :
              (pc[p] = "awaitOp" /\ now' # now) => pc'[p] = "awaitOp" ]_vars

\* C38 witness: a call has returned from its last attempt, after two
\* sleeps, with the clock moved on while it was in flight.
C38_Witness ==
    /\ pc[Caller] = "returned"
    /\ invocations[Caller] = 3
    /\ Len(sleeps[Caller]) = 2
    /\ ticks > 0

\* C39: an adaptiveBatch call whose processor calls all settle eventually
\* returns, whatever the processor does, and its current batch size stays
\* within [1, 100].
C39_AdaptiveBatchReturns ==
    /\ [](batch.phase = "adaptiveBatch" =>
            /\ ~fracLess(batch.currentBatchSize, fracInt(1))
            /\ ~fracLess(fracInt(GrowLimit), batch.currentBatchSize))
    /\ (batch.phase = "adaptiveBatch") ~> (batch.phase = "returned")

\* C40: CacheConfig.disabled() returns a CacheConfig, with enabled and
\* performanceMonitoring false; it does not throw.
C40_DisabledReturns ==
    [][ (ret' # ret /\ ret'.op = "CacheConfig.disabled")
        => /\ ret'.value.t = "CacheConfig"
           /\ ret'.value.v.enabled = FALSE
           /\ ret'.value.v.performanceMonitoring = FALSE ]_vars

====
